---- MODULE Spec2Model ----
(***************************************************************************)
(* Model of the semantic analysis core of protox: the NameMap first pass   *)
(* (src/src/check/names.rs), the IR builder (src/src/check/ir.rs) and the  *)
(* checker / descriptor emitter (src/src/check/mod_.rs).                   *)
(*                                                                         *)
(* Strings are modelled as sequences of tokens: a token is either the      *)
(* separator "." or an identifier that holds no '.'.  "a.b" is             *)
(* <<"a", ".", "b">> and the empty string is <<>>, so concatenation,       *)
(* strip_prefix('.'), rfind('.'), split('.') and [1..] are computed on the *)
(* representation as the code computes them on bytes.                      *)
(***************************************************************************)
EXTENDS Integers, Sequences, FiniteSets, TLC

VARIABLES
    \* a call of NameMap::resolve: the map, the arguments, the keys looked
    \* up so far and the value returned
    res_map, res_arg, res_tried, res_result, res_pc,
    \* the driver: the input files, the build profile, the NameMap of each
    \* file compiled so far and what from_proto returned for it
    files, debug_build, file_map, returned,
    \* the NamePass in progress: the file, its fields, and the rest of the walk
    np_file, np_name_map, np_scope, np_errors, np_todo,
    \* File::build: the file, the items not yet visited and the messages built
    ir_ast, ir_todo, ir_messages,
    \* the second pass: the file, its Context, the items not yet visited, the
    \* descriptor so far and where the pass stands
    ck_ast, ck_ctx, ck_todo, ck_file, ck_pc,
    \* one call of Context::resolve_type_name: its Context, argument and result
    rt_ctx, rt_type_name, rt_result,
    \* one call of Context::check_label: its Context, argument and the Context
    \* afterwards
    cl_ctx, cl_label, cl_result,
    \* one call of ast::Int::to_field_number or to_enum_number: its Context,
    \* the literal, which of the two is called, and what it returned
    nm_ctx, nm_int, nm_op, nm_result,
    \* a Comments tracker: its two fields; the comments handed to it since it
    \* was last empty and what the last take returned
    detached, current, cm_said, cm_taken

resolveVars == <<res_map, res_arg, res_tried, res_result, res_pc>>

driverVars == <<files, debug_build, file_map, returned>>

passVars == <<np_file, np_name_map, np_scope, np_errors, np_todo>>

irVars == <<ir_ast, ir_todo, ir_messages>>

checkVars == <<ck_ast, ck_ctx, ck_todo, ck_file, ck_pc>>

typeVars == <<rt_ctx, rt_type_name, rt_result>>

labelVars == <<cl_ctx, cl_label, cl_result>>

numberVars == <<nm_ctx, nm_int, nm_op, nm_result>>

commentVars == <<detached, current, cm_said, cm_taken>>

vars == <<resolveVars, driverVars, passVars, irVars, checkVars, typeVars, labelVars, numberVars, commentVars>>

exceptResolve == <<driverVars, passVars, irVars, checkVars, typeVars, labelVars, numberVars, commentVars>>

exceptNames == <<resolveVars, irVars, checkVars, typeVars, labelVars, numberVars, commentVars>>

exceptIr == <<resolveVars, driverVars, passVars, checkVars, typeVars, labelVars, numberVars, commentVars>>

exceptCheck ==
    <<resolveVars, files, file_map, returned, passVars, irVars, typeVars, labelVars, numberVars, commentVars>>

exceptType == <<resolveVars, driverVars, passVars, irVars, checkVars, labelVars, numberVars, commentVars>>

exceptLabel ==
    <<resolveVars, driverVars, passVars, irVars, checkVars, typeVars, numberVars,
      commentVars>>

exceptNumber ==
    <<resolveVars, driverVars, passVars, irVars, checkVars, typeVars, labelVars,
      commentVars>>

exceptComments ==
    <<resolveVars, driverVars, passVars, irVars, checkVars, typeVars, labelVars,
      numberVars>>

None == <<"None">>

Dot == "."

Some(v) == <<"Some", v>>

-----------------------------------------------------------------------------
(* String helpers *)

\* "a.b" from <<"a", "b">>; the inverse of Split for identifier lists
RECURSIVE Join(_)
Join(segs) ==
    IF segs = <<>> THEN <<>>
    ELSE IF Len(segs) = 1 THEN <<segs[1]>>
    ELSE <<segs[1], Dot>> \o Join(Tail(segs))

\* index of the last '.' of s, 0 when there is none (1-based)
RECURSIVE RFindDot(_)
RFindDot(s) ==
    IF s = <<>> THEN 0
    ELSE IF s[Len(s)] = Dot THEN Len(s)
    ELSE RFindDot(SubSeq(s, 1, Len(s) - 1))

\* index of the first '.' of s, 0 when there is none (1-based)
RECURSIVE FindDot(_)
FindDot(s) ==
    IF s = <<>> THEN 0
    ELSE IF s[1] = Dot THEN 1
    ELSE LET r == FindDot(Tail(s)) IN IF r = 0 THEN 0 ELSE r + 1

\* str::split('.'): the pieces between separators; "" splits into <<"">>
RECURSIVE Split(_)
Split(s) ==
    LET i == FindDot(s) IN
    IF i = 0 THEN <<s>>
    ELSE <<SubSeq(s, 1, i - 1)>> \o Split(SubSeq(s, i + 1, Len(s)))

\* the pieces put back together with '.' between them
RECURSIVE Concat(_)
Concat(pieces) ==
    IF pieces = <<>> THEN <<>>
    ELSE IF Len(pieces) = 1 THEN pieces[1]
    ELSE pieces[1] \o <<Dot>> \o Concat(Tail(pieces))

\* crate::make_name
make_name(namespace, name) ==
    IF namespace = <<>> THEN name ELSE namespace \o <<Dot>> \o name

\* crate::make_absolute_name
make_absolute_name(namespace, name) ==
    IF namespace = <<>> THEN <<Dot>> \o name
    ELSE <<Dot>> \o namespace \o <<Dot>> \o name

\* crate::parse_namespace: everything before the last '.', "" without one
parse_namespace(name) ==
    LET i == RFindDot(name) IN
    IF i = 0 THEN <<>> ELSE SubSeq(name, 1, i - 1)

-----------------------------------------------------------------------------
(* NameMap: a function from keys (strings without leading dot) to entries *)

Entry(kind, span, public, file) ==
    [kind |-> kind, span |-> span, public |-> public, file |-> file]

Kind(tag, number) == [tag |-> tag, number |-> number]

EmptyMap == [k \in {} |-> None]

\* NameMap::get
get(map, name) ==
    IF name \in DOMAIN map THEN Some(map[name].kind) ELSE None

-----------------------------------------------------------------------------
(* NameMap::resolve *)

\* a plausible slip: the emptiness test comes before the lookup, so the name
\* alone is never tried
RECURSIVE resolve_loop_early_exit(_, _, _, _)
resolve_loop_early_exit(map, context, name, tried) ==
    LET full_name == make_absolute_name(context, name)
        def == get(map, Tail(full_name))
        tried1 == Append(tried, Tail(full_name)) IN
    IF context = <<>>
    THEN [result |-> None, tried |-> tried]
    ELSE IF def # None
    THEN [result |-> Some(<<full_name, def[2]>>), tried |-> tried1]
    ELSE resolve_loop_early_exit(map, parse_namespace(context), name, tried1)

\* the loop of resolve: the value returned and the keys looked up, in order
RECURSIVE resolve_loop(_, _, _, _)
resolve_loop(map, context, name, tried) ==
    LET full_name == make_absolute_name(context, name)
        def == get(map, Tail(full_name))
        tried1 == Append(tried, Tail(full_name)) IN
    IF def # None
    THEN [result |-> Some(<<full_name, def[2]>>), tried |-> tried1]
    ELSE IF context = <<>>
    THEN [result |-> None, tried |-> tried1]
    ELSE resolve_loop(map, parse_namespace(context), name, tried1)

\* NameMap::resolve, with the keys it looked up
resolve_traced(map, context, name) ==
    IF name # <<>> /\ Head(name) = Dot
    THEN LET absolute_name == Tail(name)
             def == get(map, absolute_name) IN
         [result |-> IF def = None THEN None ELSE Some(<<name, def[2]>>),
          tried |-> <<absolute_name>>]
    ELSE resolve_loop(map, context, name, <<>>)

\* NameMap::resolve
resolve(map, context, name) == resolve_traced(map, context, name).result

MaxContext == 3

ResSegs == <<"a", "b", "c", "d", "e", "f">>

ResContexts == { Join(SubSeq(ResSegs, 1, n)) : n \in 0..MaxContext }

ResNames == { <<"X">>, <<"b", Dot, "X">>, <<Dot, "a", Dot, "X">>, <<Dot, "X">> }

ResKeys ==
    { make_name(c, <<"X">>) : c \in ResContexts }
    \cup { <<"b", Dot, "X">>, <<"a", Dot, "b", Dot, "b", Dot, "X">>, <<"a">> }

ResKind(key) == Kind("Message", Len(key))

ResolveIdle ==
    /\ res_map = EmptyMap
    /\ res_arg = None
    /\ res_tried = <<>>
    /\ res_result = None
    /\ res_pc = "idle"

DriverIdle ==
    /\ files = EmptyMap
    /\ debug_build = FALSE
    /\ file_map = EmptyMap
    /\ returned = EmptyMap

IrIdle ==
    /\ ir_ast = [syntax |-> "Proto2", package |-> <<>>, items |-> <<>>]
    /\ ir_todo = <<>>
    /\ ir_messages = <<>>

PassIdle ==
    /\ np_file = None
    /\ np_name_map = EmptyMap
    /\ np_scope = <<>>
    /\ np_errors = <<>>
    /\ np_todo = <<>>

CheckIdle ==
    /\ ck_ast = None
    /\ ck_ctx = None
    /\ ck_todo = <<>>
    /\ ck_file = None
    /\ ck_pc = "idle"

TypeIdle ==
    /\ rt_ctx = None
    /\ rt_type_name = None
    /\ rt_result = None

LabelIdle ==
    /\ cl_ctx = None
    /\ cl_label = None
    /\ cl_result = None

NumberIdle ==
    /\ nm_ctx = None
    /\ nm_int = None
    /\ nm_op = "idle"
    /\ nm_result = None

CommentsIdle ==
    /\ detached = <<>>
    /\ current = None
    /\ cm_said = <<>>
    /\ cm_taken = None

InitResolve ==
    /\ \E keys \in SUBSET ResKeys :
         res_map = [k \in keys |-> Entry(ResKind(k), None, TRUE, None)]
    /\ \E c \in ResContexts, n \in ResNames :
         res_arg = [context |-> c, name |-> n]
    /\ res_tried = <<>>
    /\ res_result = None
    /\ res_pc = "start"
    /\ DriverIdle
    /\ PassIdle
    /\ IrIdle
    /\ CheckIdle
    /\ TypeIdle
    /\ LabelIdle
    /\ NumberIdle
    /\ CommentsIdle

\* a call resolve(context, name) on the map
Resolve ==
    /\ res_pc = "start"
    /\ LET r == resolve_traced(res_map, res_arg.context, res_arg.name) IN
       /\ res_tried' = r.tried
       /\ res_result' = r.result
    /\ res_pc' = "done"
    /\ UNCHANGED <<res_map, res_arg, exceptResolve>>

NextResolve == Resolve

SpecResolve == InitResolve /\ [][NextResolve]_vars

-----------------------------------------------------------------------------
(* The first pass: NameMap::from_proto and NamePass *)

\* NameLocation::new
NameLocation(file, span) ==
    IF file # None THEN <<"Import", file[2]>>
    ELSE IF span # None THEN <<"Root", span[2]>>
    ELSE <<"Unknown">>

DuplicateNameError(name, first, second) ==
    [error |-> "DuplicateName", name |-> name, first |-> first, second |-> second]

\* a plausible slip: an occupied key is overwritten by the later definition
add_overwrite(map, name, kind, span, file, public) ==
    [map |-> [k \in DOMAIN map \cup {name} |->
                 IF k = name THEN Entry(kind, span, public, file) ELSE map[k]],
     err |-> None]

\* NameMap::add: the map afterwards and the error returned, if any
add(map, name, kind, span, file, public) ==
    IF name \notin DOMAIN map
    THEN [map |-> [k \in DOMAIN map \cup {name} |->
                      IF k = name THEN Entry(kind, span, public, file) ELSE map[k]],
          err |-> None]
    ELSE IF kind.tag = "Package" /\ map[name].kind.tag = "Package"
    THEN [map |-> map, err |-> None]
    ELSE [map |-> map,
          err |-> Some(DuplicateNameError(name,
                          NameLocation(map[name].file, map[name].span),
                          NameLocation(file, span)))]

\* the map after add was called for the given entries of other, none of which
\* is refused
add_all(map, other, keys, file, public) ==
    [k \in DOMAIN map \cup keys |->
        IF k \in DOMAIN map THEN map[k]
        ELSE Entry(other[k].kind, other[k].span, public, Some(file))]

\* a plausible slip: the entries that are not public are merged too
merge_all_entries(map, other, file, public) ==
    LET exported == DOMAIN other
        refused == { k \in exported :
                        add(map, k, other[k].kind, other[k].span, Some(file), public).err # None }
    IN
    IF refused = {}
    THEN { [map |-> add_all(map, other, exported, file, public), err |-> None] }
    ELSE { [map |-> add_all(map, other, before, file, public),
            err |-> add(map, k, other[k].kind, other[k].span, Some(file), public).err] :
              <<k, before>> \in refused \X SUBSET (exported \ refused) }

\* NameMap::merge: the outcomes the iteration order of the HashMap `other`
\* allows.  The entries that add accepts never collide with one another (the
\* keys of other are distinct), so an outcome is fixed by the first refused
\* entry met and the set of accepted entries met before it.
merge(map, other, file, public) ==
    LET exported == { k \in DOMAIN other : other[k].public }
        refused == { k \in exported :
                        add(map, k, other[k].kind, other[k].span, Some(file), public).err # None }
    IN
    IF refused = {}
    THEN { [map |-> add_all(map, other, exported, file, public), err |-> None] }
    ELSE { [map |-> add_all(map, other, before, file, public),
            err |-> add(map, k, other[k].kind, other[k].span, Some(file), public).err] :
              <<k, before>> \in refused \X SUBSET (exported \ refused) }

\* NamePass::full_name
full_name(scope, name) == make_name(scope, name)

\* a plausible slip: the separator is not pushed
enter_no_dot(scope, name) == scope \o name

\* NamePass::enter: the scope afterwards
enter(scope, name) ==
    (IF scope # <<>> THEN scope \o <<Dot>> ELSE scope) \o name

\* NamePass::exit: the scope afterwards (the assertion is in the action Exit)
exit(scope) ==
    LET i == RFindDot(scope)
        len == IF i = 0 THEN 0 ELSE i - 1 IN
    SubSeq(scope, 1, len)

\* index_to_i32
index_to_i32(index) == index

\* The walk of add_file_descriptor_proto, as the list of the calls it makes on
\* the NamePass, in order.
MergeOp(file, public) == [op |-> "merge_names", file |-> file, public |-> public]

AddOp(name, kind) == [op |-> "add_name", name |-> name, kind |-> kind]

EnterOp(name) == [op |-> "enter", name |-> name]

ExitOp == [op |-> "exit"]

\* NamePass::add_field_descriptor_proto
add_field_descriptor_proto(field) ==
    << AddOp(field.name, Kind("Field", field.number)) >>

\* NamePass::add_oneof_descriptor_proto
add_oneof_descriptor_proto(oneof) ==
    << AddOp(oneof.name, Kind("Oneof", 0)) >>

\* a plausible slip: the enum is entered like a message, so that its values
\* are keyed inside it
add_enum_descriptor_proto_entered(enu) ==
    << AddOp(enu.name, Kind("Enum", 0)), EnterOp(enu.name) >>
    \o [i \in 1..Len(enu.value) |->
           AddOp(enu.value[i].name, Kind("EnumValue", enu.value[i].number))]
    \o << ExitOp >>

\* NamePass::add_enum_descriptor_proto
add_enum_descriptor_proto(enu) ==
    << AddOp(enu.name, Kind("Enum", 0)) >>
    \o [i \in 1..Len(enu.value) |->
           AddOp(enu.value[i].name, Kind("EnumValue", enu.value[i].number))]

\* NamePass::add_service_descriptor_proto
add_service_descriptor_proto(service) ==
    << AddOp(service.name, Kind("Service", 0)), EnterOp(service.name) >>
    \o [i \in 1..Len(service.method) |->
           AddOp(service.method[i].name, Kind("Method", 0))]
    \o << ExitOp >>

RECURSIVE ForEachField(_)
ForEachField(fs) ==
    IF fs = <<>> THEN <<>>
    ELSE add_field_descriptor_proto(Head(fs)) \o ForEachField(Tail(fs))

RECURSIVE ForEachOneof(_)
ForEachOneof(os) ==
    IF os = <<>> THEN <<>>
    ELSE add_oneof_descriptor_proto(Head(os)) \o ForEachOneof(Tail(os))

RECURSIVE ForEachEnum(_)
ForEachEnum(es) ==
    IF es = <<>> THEN <<>>
    ELSE add_enum_descriptor_proto(Head(es)) \o ForEachEnum(Tail(es))

RECURSIVE ForEachService(_)
ForEachService(ss) ==
    IF ss = <<>> THEN <<>>
    ELSE add_service_descriptor_proto(Head(ss)) \o ForEachService(Tail(ss))

RECURSIVE add_descriptor_proto(_)
RECURSIVE ForEachMessage(_)
\* NamePass::add_descriptor_proto
add_descriptor_proto(message) ==
    << AddOp(message.name, Kind("Message", 0)), EnterOp(message.name) >>
    \o ForEachField(message.field)
    \o ForEachOneof(message.oneof_decl)
    \o ForEachMessage(message.nested_type)
    \o ForEachEnum(message.enum_type)
    \o ForEachField(message.extension)
    \o << ExitOp >>

ForEachMessage(ms) ==
    IF ms = <<>> THEN <<>>
    ELSE add_descriptor_proto(Head(ms)) \o ForEachMessage(Tail(ms))

RECURSIVE ForEachPart(_)
ForEachPart(parts) ==
    IF parts = <<>> THEN <<>>
    ELSE << AddOp(Head(parts), Kind("Package", 0)), EnterOp(Head(parts)) >>
         \o ForEachPart(Tail(parts))

\* NamePass::add_file_descriptor_proto
add_file_descriptor_proto(file) ==
    [i \in 1..Len(file.dependency) |->
        MergeOp(file.dependency[i],
                index_to_i32(i - 1) \in file.public_dependency)]
    \o ForEachPart(Split(file.package))
    \o ForEachMessage(file.message_type)
    \o ForEachEnum(file.enum_type)
    \o ForEachField(file.extension)
    \o ForEachService(file.service)
    \o [i \in 1..Len(Split(file.package)) |-> ExitOp]

PassRunning == np_file # None

\* the order in which the driver takes the files: imports first
CompileOrder == <<"C", "B", "A">>

Before(g, f) ==
    \E i, j \in 1..Len(CompileOrder) :
        i < j /\ CompileOrder[i] = g /\ CompileOrder[j] = f

\* NameMap::from_proto, up to the call of add_file_descriptor_proto; the
\* driver compiles a file once all its imports are in the file map
FromProto(f) ==
    /\ ~PassRunning
    /\ f \in DOMAIN files
    /\ f \notin DOMAIN returned
    /\ \A g \in DOMAIN files : Before(g, f) => g \in DOMAIN returned
    /\ \A i \in 1..Len(files[f].dependency) :
          files[f].dependency[i] \in DOMAIN file_map
    /\ np_file' = Some(f)
    /\ np_name_map' = EmptyMap
    /\ np_errors' = <<>>
    /\ np_scope' = <<>>
    /\ np_todo' = add_file_descriptor_proto(files[f])
    /\ UNCHANGED <<exceptNames, driverVars>>

\* NamePass::merge_names
MergeNames ==
    /\ PassRunning
    /\ np_todo # <<>> /\ Head(np_todo).op = "merge_names"
    /\ LET o == Head(np_todo) IN
       \E out \in merge(np_name_map, file_map[o.file], o.file, o.public) :
          /\ np_name_map' = out.map
          /\ np_errors' = IF out.err = None THEN np_errors
                          ELSE Append(np_errors, out.err[2])
    /\ np_todo' = Tail(np_todo)
    /\ UNCHANGED <<exceptNames, driverVars, np_file, np_scope>>

\* NamePass::add_name
AddName ==
    /\ PassRunning
    /\ np_todo # <<>> /\ Head(np_todo).op = "add_name"
    /\ LET o == Head(np_todo)
           out == add(np_name_map, full_name(np_scope, o.name), o.kind, None, None, TRUE) IN
       /\ np_name_map' = out.map
       /\ np_errors' = IF out.err = None THEN np_errors
                       ELSE Append(np_errors, out.err[2])
    /\ np_todo' = Tail(np_todo)
    /\ UNCHANGED <<exceptNames, driverVars, np_file, np_scope>>

\* NamePass::enter
Enter ==
    /\ PassRunning
    /\ np_todo # <<>> /\ Head(np_todo).op = "enter"
    /\ np_scope' = enter(np_scope, Head(np_todo).name)
    /\ np_todo' = Tail(np_todo)
    /\ UNCHANGED <<exceptNames, driverVars, np_file, np_name_map, np_errors>>

\* the pass is abandoned by a failed assertion
Panic(message) ==
    /\ returned' = [k \in DOMAIN returned \cup {np_file[2]} |->
                      IF k = np_file[2]
                      THEN [status |-> "Panic", errors |-> <<message>>,
                            name_map |-> np_name_map]
                      ELSE returned[k]]
    /\ np_file' = None
    /\ np_name_map' = EmptyMap
    /\ np_errors' = <<>>
    /\ np_scope' = <<>>
    /\ np_todo' = <<>>
    /\ UNCHANGED <<exceptNames, files, debug_build, file_map>>

\* NamePass::exit; debug_assert! is compiled in debug builds only
Exit ==
    /\ PassRunning
    /\ np_todo # <<>> /\ Head(np_todo).op = "exit"
    /\ IF debug_build /\ np_scope = <<>>
       THEN Panic("imbalanced scope stack")
       ELSE /\ np_scope' = exit(np_scope)
            /\ np_todo' = Tail(np_todo)
            /\ UNCHANGED <<exceptNames, driverVars, np_file, np_name_map, np_errors>>

\* NameMap::from_proto, after add_file_descriptor_proto has returned; the
\* driver keeps the map of a file that compiled
FromProtoReturn ==
    /\ PassRunning
    /\ np_todo = <<>>
    /\ IF debug_build /\ np_scope # <<>>
       THEN Panic("assertion failed: ctx.scope.is_empty()")
       ELSE /\ returned' = [k \in DOMAIN returned \cup {np_file[2]} |->
                              IF k = np_file[2]
                              THEN [status |-> IF np_errors = <<>> THEN "Ok" ELSE "Err",
                                    errors |-> np_errors,
                                    name_map |-> np_name_map]
                              ELSE returned[k]]
            /\ file_map' = IF np_errors = <<>>
                           THEN [k \in DOMAIN file_map \cup {np_file[2]} |->
                                    IF k = np_file[2] THEN np_name_map ELSE file_map[k]]
                           ELSE file_map
            /\ np_file' = None
            /\ np_name_map' = EmptyMap
            /\ np_errors' = <<>>
            /\ np_scope' = <<>>
            /\ np_todo' = <<>>
            /\ UNCHANGED <<exceptNames, files, debug_build>>

-----------------------------------------------------------------------------
(* Input files of the first pass *)

Ident(x) == <<x>>

FieldD(name, number) == [name |-> Ident(name), number |-> number]

OneofD(name) == [name |-> Ident(name)]

EnumValueD(name, number) == [name |-> Ident(name), number |-> number]

EnumD(name, value) == [name |-> Ident(name), value |-> value]

MethodD(name) == [name |-> Ident(name)]

ServiceD(name, method) == [name |-> Ident(name), method |-> method]

MessageD(name, field, oneof_decl, nested_type, enum_type, extension) ==
    [name |-> Ident(name), field |-> field, oneof_decl |-> oneof_decl,
     nested_type |-> nested_type, enum_type |-> enum_type, extension |-> extension]

FileD(name, dependency, public_dependency, package, message_type, enum_type, extension, service) ==
    [name |-> name, dependency |-> dependency,
     public_dependency |-> public_dependency, package |-> package,
     message_type |-> message_type, enum_type |-> enum_type,
     extension |-> extension, service |-> service]

EmptyMessage(name) == MessageD(name, <<>>, <<>>, <<>>, <<>>, <<>>)

MaxPackage == 2

MaxImportDecls == 2

PackageSegs == <<"a", "b", "c", "d">>

\* "", "a", "a.b", ...
Packages == { Join(SubSeq(PackageSegs, 1, n)) : n \in 0..MaxPackage }

ImportNames == <<"X", "Y", "Z", "W">>

\* message X; message X, message Y; ...
ImportDecls(least) ==
    { [i \in 1..n |-> EmptyMessage(ImportNames[i])] : n \in least..MaxImportDecls }

\* the ways a file can import the files of deps: which, in which order, and
\* which of them publicly
Imports(deps) ==
    { [dependency |-> d, public_dependency |-> p] :
        <<d, p>> \in { <<d, p>> \in
            ({<<>>} \cup { <<x>> : x \in deps }
                    \cup { <<x, y>> : <<x, y>> \in { q \in deps \X deps : q[1] # q[2] } })
            \X SUBSET {0, 1} : \A i \in p : i < Len(d) } }

\* a message with a declaration of every kind a message body can hold
BigMessage ==
    MessageD("X",
        << FieldD("Y", 1), FieldD("Z", 2) >>,
        << OneofD("O") >>,
        << MessageD("N", << FieldD("Y", 3) >>, <<>>,
                    << EmptyMessage("N") >>, << EnumD("E", << EnumValueD("V", 5) >>) >>,
                    <<>>) >>,
        << EnumD("E", << EnumValueD("V", 0), EnumValueD("U", -1) >>) >>,
        << FieldD("W", 100) >>)

RichMessages ==
    { <<>>, << BigMessage >>, << BigMessage, EmptyMessage("Y") >>,
      << EmptyMessage("Y"), EmptyMessage("Y") >> }

RichEnums ==
    { <<>>, << EnumD("E", << EnumValueD("V", 0), EnumValueD("W", 1) >>) >>,
      << EnumD("X", << EnumValueD("Y", 0) >>) >>,
      << EnumD("E", << EnumValueD("V", 0) >>), EnumD("F", << EnumValueD("V", 1) >>) >> }

RichExtensions == { <<>>, << FieldD("X", 7) >>, << FieldD("F", 8) >> }

RichServices ==
    { <<>>, << ServiceD("S", << MethodD("M"), MethodD("X") >>) >>,
      << ServiceD("X", << MethodD("X") >>) >> }

\* one file with declarations of every kind and no import
InitRich ==
    /\ \E pkg \in Packages, ms \in RichMessages, es \in RichEnums,
          xs \in RichExtensions, ss \in RichServices :
         files = [f \in {"A"} |-> FileD(f, <<>>, {}, pkg, ms, es, xs, ss)]
    /\ debug_build \in BOOLEAN
    /\ file_map = EmptyMap
    /\ returned = EmptyMap

\* three small files: B may import C, A may import B and C
InitImports ==
    /\ \E pc \in {<<>>, <<"a">>}, dc \in ImportDecls(1),
          ib \in Imports({"C"}), db \in ImportDecls(0),
          pa \in {<<>>, <<"a">>}, ia \in Imports({"B", "C"}),
          da \in { <<>>, << EmptyMessage("X") >>, << EmptyMessage("a") >> },
          ea \in { <<>>, << EnumD("X", <<>>) >> } :
         files = [f \in {"A", "B", "C"} |->
                    CASE f = "C" -> FileD(f, <<>>, {}, pc, dc, <<>>, <<>>, <<>>)
                      [] f = "B" -> FileD(f, ib.dependency, ib.public_dependency,
                                          <<"a">>, db, <<>>, <<>>, <<>>)
                      [] f = "A" -> FileD(f, ia.dependency, ia.public_dependency,
                                          pa, da, ea, <<>>, <<>>)]
    /\ debug_build \in BOOLEAN
    /\ file_map = EmptyMap
    /\ returned = EmptyMap

InitNames ==
    /\ InitRich \/ InitImports
    /\ ResolveIdle
    /\ PassIdle
    /\ IrIdle
    /\ CheckIdle
    /\ TypeIdle
    /\ LabelIdle
    /\ NumberIdle
    /\ CommentsIdle

NextNames ==
    \/ \E f \in DOMAIN files : FromProto(f)
    \/ MergeNames
    \/ AddName
    \/ Enter
    \/ Exit
    \/ FromProtoReturn

SpecNames == InitNames /\ [][NextNames]_vars

-----------------------------------------------------------------------------
(* C1 *)

\* the keys the search is to try, innermost scope first, from the segments
\* of the context: context.name, ..., first-segment.name, name
SearchOrder(context, name) ==
    LET segs == IF context = <<>> THEN <<>> ELSE Split(context)
        n == Len(segs) IN
    [i \in 1..(n + 1) |->
        LET prefix == SubSeq(segs, 1, n + 1 - i) IN
        IF prefix = <<>> THEN name ELSE Concat(prefix) \o <<Dot>> \o name]

Relative == ~(res_arg.name # <<>> /\ Head(res_arg.name) = Dot)

\* C1: for a name without a leading dot, resolve tries context.name, then
\* the same with the last segment of the context stripped, ..., then name
\* alone, in that order and nothing else; it stops at the first key that is
\* present and returns '.' + that key with that key's kind; it returns None
\* only when none of the keys is present; it makes at most
\* (segments of context + 1) lookups, so it terminates.
C1_ResolveOrder ==
    (res_pc = "done" /\ Relative) =>
      LET order == SearchOrder(res_arg.context, res_arg.name)
          hits == { i \in 1..Len(order) : order[i] \in DOMAIN res_map } IN
      IF hits = {}
      THEN res_result = None /\ res_tried = order
      ELSE LET first == CHOOSE i \in hits : \A j \in hits : i <= j IN
           /\ res_tried = SubSeq(order, 1, first)
           /\ res_result =
                Some(<<(<<Dot>> \o order[first]), res_map[order[first]].kind>>)

\* a search over a three-segment context that fell through to an outer scope
C1_Witness ==
    /\ res_pc = "done"
    /\ Relative
    /\ res_arg.context = <<"a", Dot, "b", Dot, "c">>
    /\ res_arg.name = <<"X">>
    /\ Len(res_tried) = 3
    /\ res_result = Some(<<(<<Dot, "a", Dot, "X">>), ResKind(<<"a", Dot, "X">>)>>)

-----------------------------------------------------------------------------
(* The declarations of a file, read off the nesting of its descriptor *)

Decl(scope, name, kind) == [scope |-> scope, name |-> name, kind |-> kind]

\* the key of a declaration: the identifiers of its scope and its own name,
\* dot-separated
DeclKey(d) == Concat(d.scope \o <<d.name>>)

DeclsOfEnum(scope, e) ==
    << Decl(scope, e.name, Kind("Enum", 0)) >>
    \o [i \in 1..Len(e.value) |->
           Decl(scope, e.value[i].name, Kind("EnumValue", e.value[i].number))]

DeclsOfService(scope, sv) ==
    << Decl(scope, sv.name, Kind("Service", 0)) >>
    \o [i \in 1..Len(sv.method) |->
           Decl(scope \o <<sv.name>>, sv.method[i].name, Kind("Method", 0))]

DeclsOfFields(scope, fs) ==
    [i \in 1..Len(fs) |-> Decl(scope, fs[i].name, Kind("Field", fs[i].number))]

RECURSIVE DeclsOfEnums(_, _)
DeclsOfEnums(scope, es) ==
    IF es = <<>> THEN <<>>
    ELSE DeclsOfEnum(scope, Head(es)) \o DeclsOfEnums(scope, Tail(es))

RECURSIVE DeclsOfServices(_, _)
DeclsOfServices(scope, ss) ==
    IF ss = <<>> THEN <<>>
    ELSE DeclsOfService(scope, Head(ss)) \o DeclsOfServices(scope, Tail(ss))

RECURSIVE DeclsOfMessage(_, _)
RECURSIVE DeclsOfMessages(_, _)
DeclsOfMessage(scope, m) ==
    LET inner == scope \o <<m.name>> IN
    << Decl(scope, m.name, Kind("Message", 0)) >>
    \o DeclsOfFields(inner, m.field)
    \o [i \in 1..Len(m.oneof_decl) |->
           Decl(inner, m.oneof_decl[i].name, Kind("Oneof", 0))]
    \o DeclsOfMessages(inner, m.nested_type)
    \o DeclsOfEnums(inner, m.enum_type)
    \o DeclsOfFields(inner, m.extension)

DeclsOfMessages(scope, ms) ==
    IF ms = <<>> THEN <<>>
    ELSE DeclsOfMessage(scope, Head(ms)) \o DeclsOfMessages(scope, Tail(ms))

\* the components of a package name; a file without package has none
PackageParts(file) == IF file.package = <<>> THEN <<>> ELSE Split(file.package)

DeclsOfFile(file) ==
    LET parts == PackageParts(file) IN
    [i \in 1..Len(parts) |-> Decl(SubSeq(parts, 1, i - 1), parts[i], Kind("Package", 0))]
    \o DeclsOfMessages(parts, file.message_type)
    \o DeclsOfEnums(parts, file.enum_type)
    \o DeclsOfFields(parts, file.extension)
    \o DeclsOfServices(parts, file.service)

Range(seq) == { seq[i] : i \in 1..Len(seq) }

Compiled(f) == f \in DOMAIN returned /\ returned[f].status = "Ok"

-----------------------------------------------------------------------------
(* C2 *)

\* C2: once from_proto has returned Ok for a file, every declaration D of
\* the file (package component, message, nested message, field, oneof, enum,
\* enum value, extension field, service, method) is found by resolve from the
\* scope D is declared in under D's local name: the result is
\* '.' + scope + '.' + name with D's kind.
C2_Completeness ==
    \A f \in DOMAIN files :
       Compiled(f) =>
          \A d \in Range(DeclsOfFile(files[f])) :
             resolve(file_map[f], Concat(d.scope), d.name)
                = Some(<< (<<Dot>> \o DeclKey(d)), d.kind >>)

\* a file in package a.b with a nested message, an enum, an extension and a
\* service compiled
C2_Witness ==
    /\ Compiled("A")
    /\ files["A"].package = <<"a", Dot, "b">>
    /\ BigMessage \in Range(files["A"].message_type)
    /\ files["A"].enum_type # <<>>
    /\ files["A"].extension # <<>>
    /\ files["A"].service # <<>>

-----------------------------------------------------------------------------
(* C3 *)

DirectImports(f) == Range(files[f].dependency)

PublicImports(f) ==
    { files[f].dependency[i + 1] : i \in { j \in files[f].public_dependency :
                                             j < Len(files[f].dependency) } }

\* the files whose declarations are visible in f: its imports, and what these
\* re-export through public imports
RECURSIVE ReExported(_, _)
ReExported(f, depth) ==
    IF depth = 0 THEN {}
    ELSE PublicImports(f)
         \cup UNION { ReExported(g, depth - 1) : g \in PublicImports(f) }

Visible(f) ==
    DirectImports(f)
    \cup UNION { ReExported(g, Cardinality(DOMAIN files)) : g \in DirectImports(f) }

\* the declarations of key k that f makes itself
OwnDecls(f, k) ==
    LET ds == DeclsOfFile(files[f]) IN
    { <<f, i>> : i \in { j \in 1..Len(ds) : DeclKey(ds[j]) = k } }

\* the declarations of key k that f makes or sees through its imports
DeclsSeen(f, k) == OwnDecls(f, k) \cup UNION { OwnDecls(g, k) : g \in Visible(f) }

DeclOf(d) == DeclsOfFile(files[d[1]])[d[2]]

AllKeys == UNION { { DeclKey(d) : d \in Range(DeclsOfFile(files[f])) } : f \in DOMAIN files }

DuplicateNames(f, k) ==
    { i \in 1..Len(returned[f].errors) :
        /\ returned[f].errors[i].error = "DuplicateName"
        /\ returned[f].errors[i].name = k }

\* C3 (as stated): when from_proto has returned for a file and a key is
\* declared exactly twice among the file's own declarations and those it sees
\* through its imports, not both of them packages, the errors returned hold
\* exactly one DuplicateName for that key.
C3_ExactlyOneDuplicate ==
    \A f \in DOMAIN returned :
       returned[f].status # "Panic" =>
          \A k \in AllKeys :
             ( /\ Cardinality(DeclsSeen(f, k)) = 2
               /\ \E d \in DeclsSeen(f, k) : DeclOf(d).kind.tag # "Package" )
             => Cardinality(DuplicateNames(f, k)) = 1

-----------------------------------------------------------------------------
(* C4 *)

OwnKeys(f) == { DeclKey(d) : d \in Range(DeclsOfFile(files[f])) }

Chain ==
    /\ files["A"].dependency = <<"B">>
    /\ files["B"].dependency = <<"C">>

\* C4 (as stated): with A importing B and B importing C, every name of C is
\* in A's NameMap when both imports are public, and no name of C (that A and
\* B do not declare themselves) is in it when either import is not public.
C4_AnyHopHides ==
    (DOMAIN files = {"A", "B", "C"} /\ Chain /\ Compiled("A")) =>
       LET ab == 0 \in files["A"].public_dependency
           bc == 0 \in files["B"].public_dependency IN
       /\ (ab /\ bc) => OwnKeys("C") \subseteq DOMAIN file_map["A"]
       /\ ~(ab /\ bc) =>
            \A k \in OwnKeys("C") \ (OwnKeys("A") \cup OwnKeys("B")) :
               k \notin DOMAIN file_map["A"]

\* C4 (amended): with A importing B and B importing C, once A's first pass
\* has returned Ok: if B imports C publicly, every name of C is in A's
\* NameMap, whether A imports B publicly or not, and it is public in A's map
\* exactly when A imports B publicly; if B imports C non-publicly, no name of
\* C that A and B do not declare themselves is in A's NameMap.
C4_VisibilityThroughPublicImport ==
    (DOMAIN files = {"A", "B", "C"} /\ Chain /\ Compiled("A")) =>
       LET ab == 0 \in files["A"].public_dependency
           bc == 0 \in files["B"].public_dependency IN
       /\ bc => /\ OwnKeys("C") \subseteq DOMAIN file_map["A"]
                /\ \A k \in OwnKeys("C") \ OwnKeys("A") :
                      /\ file_map["A"][k].public = ab
                      /\ file_map["A"][k].file = Some("B")
       /\ ~bc => \A k \in OwnKeys("C") \ (OwnKeys("A") \cup OwnKeys("B")) :
                    k \notin DOMAIN file_map["A"]

\* A imported B non-publicly, B imported C publicly, and C's message X is in
\* A's map
C4_Witness ==
    /\ DOMAIN files = {"A", "B", "C"} /\ Chain /\ Compiled("A")
    /\ files["A"].public_dependency = {}
    /\ files["B"].public_dependency = {0}
    /\ files["C"].package = <<"a">>
    /\ <<"a", Dot, "X">> \in DOMAIN file_map["A"]
    /\ <<"a", Dot, "X">> \notin OwnKeys("A") \cup OwnKeys("B")

(* C18 *)

\* the names an import hands to the files importing it
ExportedKeys(g) == { k \in DOMAIN file_map[g] : file_map[g][k].public }

\* C18: when from_proto has returned for a file, with or without
\* DuplicateName errors, the NameMap it built holds every name the file
\* declares and every name each of its imports exports: a collision leaves
\* out nothing but the colliding definition, whose key is in the map already.
C18_OnlyOffenderDropped ==
    \A f \in DOMAIN returned :
       returned[f].status # "Panic" =>
          /\ OwnKeys(f) \subseteq DOMAIN returned[f].name_map
          /\ \A g \in DirectImports(f) :
                ExportedKeys(g) \subseteq DOMAIN returned[f].name_map

(* C19 *)

\* what NameMap::add is to do for a name, by the rule of insertion
InsertionRule(map, name, kind, span, file, public, map_after, errors_before, errors_after) ==
    IF name \notin DOMAIN map
    THEN /\ DOMAIN map_after = DOMAIN map \cup {name}
         /\ map_after[name] = Entry(kind, span, public, file)
         /\ \A k \in DOMAIN map : map_after[k] = map[k]
         /\ errors_after = errors_before
    ELSE /\ map_after = map
         /\ errors_after =
               IF kind.tag = "Package" /\ map[name].kind.tag = "Package"
               THEN errors_before
               ELSE Append(errors_before,
                       DuplicateNameError(name,
                          NameLocation(map[name].file, map[name].span),
                          NameLocation(file, span)))

\* C19: a call of add (from add_name, or from merge for an entry of an
\* import) on a name not yet present inserts it; on a name already present it
\* changes nothing and reports nothing when both kinds are Package, and
\* otherwise reports DuplicateName with the existing entry as the first
\* location and the new one as the second.  In both cases the existing entry
\* and every other entry are unchanged: while a pass runs, each key keeps its
\* first definition.
C19_InsertionRule ==
    [][ /\ (PassRunning /\ np_todo # <<>> /\ Head(np_todo).op = "add_name") =>
              InsertionRule(np_name_map, full_name(np_scope, Head(np_todo).name),
                            Head(np_todo).kind, None, None, TRUE,
                            np_name_map', np_errors, np_errors')
        /\ (PassRunning /\ np_todo # <<>> /\ Head(np_todo).op = "merge_names") =>
              /\ \A k \in DOMAIN np_name_map :
                    k \in DOMAIN np_name_map' /\ np_name_map'[k] = np_name_map[k]
              /\ \A k \in DOMAIN np_name_map' \ DOMAIN np_name_map :
                    LET other == file_map[Head(np_todo).file] IN
                    /\ k \in DOMAIN other /\ other[k].public
                    /\ np_name_map'[k] = Entry(other[k].kind, other[k].span,
                                               Head(np_todo).public,
                                               Some(Head(np_todo).file))
              /\ \/ np_errors' = np_errors
                 \/ \E k \in DOMAIN np_name_map \cap DOMAIN file_map[Head(np_todo).file] :
                       np_errors' = Append(np_errors,
                          DuplicateNameError(k,
                             NameLocation(np_name_map[k].file, np_name_map[k].span),
                             NameLocation(Some(Head(np_todo).file),
                                          file_map[Head(np_todo).file][k].span)))
      ]_vars

\* A declared a name that an import had brought in: the error names the
\* import first and the file's own declaration second, and the entry of the
\* import is still in the map
C19_Witness ==
    /\ "A" \in DOMAIN returned
    /\ returned["A"].status = "Err"
    /\ \E i \in 1..Len(returned["A"].errors) :
          LET e == returned["A"].errors[i] IN
          /\ e.first[1] = "Import"
          /\ e.second = <<"Unknown">>
          /\ returned["A"].name_map[e.name].file = Some(e.first[2])

(* C20 *)

\* C20 (invariant D2): in the NameMap from_proto returned Ok for a file, an
\* entry has file = None when the file declares the name itself, a package
\* component that an import declares too included, and file = Some(..) when
\* the name only comes from an import.  (The key "" that a file without
\* package registers is left aside.)
C20_FileIffImported ==
    \A f \in DOMAIN files :
       Compiled(f) =>
          \A k \in DOMAIN file_map[f] \ {<<>>} :
             (file_map[f][k].file = None) <=> (k \in OwnKeys(f))

(* C25 *)

\* C25: in the first pass of every file, with or without package, exit is
\* only called on a non-empty scope, the walk ends with the scope empty, no
\* pass is abandoned by a failed assertion, and no entry with the empty name
\* is added to the NameMap.
C25_ScopeBalance ==
    /\ PassRunning =>
          /\ (np_todo # <<>> /\ Head(np_todo).op = "exit") => np_scope # <<>>
          /\ np_todo = <<>> => np_scope = <<>>
          /\ <<>> \notin DOMAIN np_name_map
    /\ \A f \in DOMAIN returned :
          /\ returned[f].status # "Panic"
          /\ <<>> \notin DOMAIN returned[f].name_map

(* C26 *)

\* C26: when A imports both B and C and B imports C publicly, the names of C
\* reach A twice, directly and through B; the first pass of A reports no
\* DuplicateName for a name of C that neither A nor B declares.
C26_NoSpuriousDuplicate ==
    ( /\ "A" \in DOMAIN returned
      /\ returned["A"].status # "Panic"
      /\ {"B", "C"} \subseteq DirectImports("A")
      /\ "C" \in PublicImports("B") )
    => \A k \in OwnKeys("C") \ (OwnKeys("A") \cup OwnKeys("B")) :
          DuplicateNames("A", k) = {}

(* C27 *)

\* C27: the values of an enum are keyed in the scope that holds the enum.
\* When the first pass of a file without imports has returned, every value V
\* of an enum declared in scope S has the key S.V in the NameMap, and the
\* DuplicateName errors for that key are one fewer than the declarations of
\* the file with that key: one when two enums of the same scope share the
\* value name, none when the enums sharing it are in different scopes.
C27_EnumValueScope ==
    \A f \in DOMAIN returned :
       (returned[f].status # "Panic" /\ files[f].dependency = <<>>) =>
          \A d \in Range(DeclsOfFile(files[f])) :
             d.kind.tag = "EnumValue" =>
                /\ DeclKey(d) \in DOMAIN returned[f].name_map
                /\ Cardinality(DuplicateNames(f, DeclKey(d)))
                      = Cardinality(OwnDecls(f, DeclKey(d))) - 1

\* enums E and F of the same scope both declare V, and nothing else is named
\* V there: one DuplicateName for V; the enums E inside X and inside X.N
\* declare V too, without a DuplicateName
C27_Witness ==
    /\ "A" \in DOMAIN returned
    /\ returned["A"].status = "Err"
    /\ files["A"].package = <<"a">>
    /\ Len(files["A"].enum_type) = 2
    /\ BigMessage \in Range(files["A"].message_type)
    /\ Cardinality(DuplicateNames("A", <<"a", Dot, "V">>)) = 1
    /\ DuplicateNames("A", <<"a", Dot, "X", Dot, "V">>) = {}
    /\ DuplicateNames("A", <<"a", Dot, "X", Dot, "N", Dot, "V">>) = {}
    /\ <<"a", Dot, "X", Dot, "N", Dot, "V">> \in DOMAIN returned["A"].name_map

-----------------------------------------------------------------------------
(* The comment tracker of the parser: parse::comments::Comments *)

MaxComments == 3

CommentTexts == {"a", "b"}

Tracker(d, c) == [detached |-> d, current |-> c]

\* Comments::new
new == Tracker(<<>>, None)

\* a plausible slip: the comment held so far is dropped, not moved
comment_replacing(this, text) == Tracker(this.detached, Some(text))

\* Comments::comment: detached.extend(current.take()); current = Some(comment)
comment(this, text) ==
    Tracker(IF this.current = None THEN this.detached
            ELSE Append(this.detached, this.current[2]),
            Some(text))

\* Comments::reset
reset(this) == Tracker(<<>>, None)

\* Comments::take: the tracker afterwards and the pair returned
take(this) == [this |-> Tracker(<<>>, None), v |-> <<this.detached, this.current>>]

InitComments ==
    /\ detached = new.detached
    /\ current = new.current
    /\ cm_said = <<>>
    /\ cm_taken = None
    /\ ResolveIdle
    /\ DriverIdle
    /\ PassIdle
    /\ IrIdle
    /\ CheckIdle
    /\ TypeIdle
    /\ LabelIdle
    /\ NumberIdle

\* the lexer hands a comment to the tracker
Comment ==
    /\ Len(cm_said) < MaxComments
    /\ \E text \in CommentTexts :
          /\ detached' = comment(Tracker(detached, current), text).detached
          /\ current' = comment(Tracker(detached, current), text).current
          /\ cm_said' = Append(cm_said, text)
    /\ UNCHANGED <<cm_taken, exceptComments>>

\* the parser discards the pending comments
Reset ==
    /\ detached' = reset(Tracker(detached, current)).detached
    /\ current' = reset(Tracker(detached, current)).current
    /\ cm_said' = <<>>
    /\ UNCHANGED <<cm_taken, exceptComments>>

\* the parser takes the comments of a declaration; what was handed in since
\* the tracker was last empty is kept beside the pair returned
Take ==
    /\ detached' = take(Tracker(detached, current)).this.detached
    /\ current' = take(Tracker(detached, current)).this.current
    /\ cm_taken' = Some([said |-> cm_said, v |-> take(Tracker(detached, current)).v])
    /\ cm_said' = <<>>
    /\ UNCHANGED exceptComments

NextComments ==
    \/ Comment
    \/ Reset
    \/ Take

SpecComments == InitComments /\ [][NextComments]_vars

(* C30 *)

\* C30: the tracker holds the comments handed to it since it was last empty
\* (new, reset or take), each once and in order, the last one as the current
\* comment; take returns ([c1, ..., c(n-1)], Some(cn)) for n >= 1 and
\* ([], None) for none, and leaves the tracker empty; reset discards all of
\* them.
C30_CommentTracker ==
    /\ cm_said = detached \o (IF current = None THEN <<>> ELSE << current[2] >>)
    /\ (cm_said # <<>>) <=> (current # None)
    /\ cm_taken # None =>
          LET said == cm_taken[2].said
              v == cm_taken[2].v IN
          IF said = <<>> THEN v = << <<>>, None >>
          ELSE v = << SubSeq(said, 1, Len(said) - 1), Some(said[Len(said)]) >>

\* three comments were taken at once, and the tracker is empty
C30_Witness ==
    /\ cm_taken # None
    /\ Len(cm_taken[2].said) = 3
    /\ Len(cm_taken[2].v[1]) = 2
    /\ detached = <<>> /\ current = None

-----------------------------------------------------------------------------
(* The AST (crate::ast), as far as the IR builder and the checker read it *)

\* ast::Int
AstInt(negative, value) == [negative |-> negative, value |-> value]

\* ast::Field of kind Normal
NormalField(name, label, ty, number, options) ==
    [name |-> Ident(name), label |-> label, kind |-> "Normal", ty |-> ty,
     number |-> number, options |-> options]

\* ast::Field of kind Group
GroupField(name, label, body, number, options) ==
    [name |-> Ident(name), label |-> label, kind |-> "Group", body |-> body,
     number |-> number, options |-> options]

\* ast::Field of kind Map
MapField(name, label, key_ty, ty, number, options) ==
    [name |-> Ident(name), label |-> label, kind |-> "Map", key_ty |-> key_ty,
     ty |-> ty, number |-> number, options |-> options]

\* ast::MessageBody
MessageBody(items, extensions, options, reserved) ==
    [items |-> items, extensions |-> extensions, options |-> options,
     reserved |-> reserved]

Body(items) == MessageBody(items, <<>>, <<>>, <<>>)

FieldItem(field) == [item |-> "Field", field |-> field]

OneofItem(name, fields, options) ==
    [item |-> "Oneof", name |-> Ident(name), fields |-> fields, options |-> options]

MessageItem(name, body) == [item |-> "Message", name |-> Ident(name), body |-> body]

ExtendItem(extendee, fields) == [item |-> "Extend", extendee |-> extendee, fields |-> fields]

EnumItem(name, values, options, reserved) ==
    [item |-> "Enum", name |-> Ident(name), values |-> values, options |-> options,
     reserved |-> reserved]

ServiceItem(name, methods, options) ==
    [item |-> "Service", name |-> Ident(name), methods |-> methods, options |-> options]

\* ast::TypeName
TypeName(leading_dot, name) == [leading_dot |-> leading_dot, name |-> name]

Named(leading_dot, name) == <<"Named", TypeName(leading_dot, name)>>

Scalar(ty) == <<ty>>

-----------------------------------------------------------------------------
(* The IR builder *)

IrMessage(ast, fields, messages, oneofs) ==
    [ast |-> ast, fields |-> fields, messages |-> messages, oneofs |-> oneofs]

IrField(ast, oneof_index, is_synthetic_oneof) ==
    [ast |-> ast, oneof_index |-> oneof_index, is_synthetic_oneof |-> is_synthetic_oneof]

IrOneof(ast) == [ast |-> ast]

\* a plausible slip: the comparator is the wrong way round
oneof_cmp_swapped(l, r) ==
    CASE l.ast[1] = "Oneof" /\ r.ast[1] = "Field" -> "Greater"
      [] l.ast[1] = "Field" /\ r.ast[1] = "Oneof" -> "Less"
      [] OTHER -> "Equal"

\* the comparator of the sort in build_message_body
oneof_cmp(l, r) ==
    CASE l.ast[1] = "Oneof" /\ r.ast[1] = "Field" -> "Less"
      [] l.ast[1] = "Field" /\ r.ast[1] = "Oneof" -> "Greater"
      [] OTHER -> "Equal"

\* x put into the sorted sequence: before the trailing elements it is Less
\* than, after everything else
RECURSIVE InsertSorted(_, _)
InsertSorted(sorted, x) ==
    IF sorted # <<>> /\ oneof_cmp(x, sorted[Len(sorted)]) = "Less"
    THEN Append(InsertSorted(SubSeq(sorted, 1, Len(sorted) - 1), x), sorted[Len(sorted)])
    ELSE Append(sorted, x)

\* slice::sort_by, a stable sort
RECURSIVE sort_by(_)
sort_by(oneofs) ==
    IF oneofs = <<>> THEN <<>>
    ELSE InsertSorted(sort_by(SubSeq(oneofs, 1, Len(oneofs) - 1)), oneofs[Len(oneofs)])

\* a plausible slip: the syntax is not looked at
spawns_synthetic_oneof_any_syntax(syntax, field, oneof_index) ==
    /\ oneof_index = None
    /\ field.label = Some("Optional")

\* the test of build_field on a Normal field
spawns_synthetic_oneof(syntax, field, oneof_index) ==
    /\ oneof_index = None
    /\ syntax # "Proto2"
    /\ field.label = Some("Optional")

Acc(fields, messages, oneofs) ==
    [fields |-> fields, messages |-> messages, oneofs |-> oneofs]

RECURSIVE build_message_body(_, _)
RECURSIVE build_items(_, _, _)
RECURSIVE build_field(_, _, _, _)
RECURSIVE build_oneof_fields(_, _, _, _)
RECURSIVE build_extend(_, _, _)

\* build_field: the three vectors afterwards
build_field(syntax, field, acc, oneof_index) ==
    CASE field.kind = "Normal" ->
           IF spawns_synthetic_oneof(syntax, field, oneof_index)
           THEN Acc(Append(acc.fields,
                       IrField(<<"Field", field>>,
                               Some(index_to_i32(Len(acc.oneofs))), TRUE)),
                    acc.messages,
                    Append(acc.oneofs, IrOneof(<<"Field", field>>)))
           ELSE Acc(Append(acc.fields, IrField(<<"Field", field>>, oneof_index, FALSE)),
                    acc.messages, acc.oneofs)
      [] field.kind = "Group" ->
           LET built[b \in Any] ==
                  Acc(Append(acc.fields, IrField(<<"Field", field>>, oneof_index, FALSE)),
                      Append(acc.messages,
                         IrMessage(<<"Group", field, field.body>>,
                            b.fields, b.messages, b.oneofs)),
                      acc.oneofs)
           IN built[build_message_body(syntax, field.body)]
      [] field.kind = "Map" ->
           Acc(Append(acc.fields, IrField(<<"Field", field>>, oneof_index, FALSE)),
               Append(acc.messages,
                  IrMessage(<<"Map", field>>,
                     << IrField(<<"MapKey", field.key_ty>>, None, FALSE),
                        IrField(<<"MapValue", field.ty>>, None, FALSE) >>,
                     <<>>, <<>>)),
               acc.oneofs)

\* the loop of build_oneof over the fields of the oneof
build_oneof_fields(syntax, fields, acc, oneof_index) ==
    LET rest[a \in Any] == build_oneof_fields(syntax, Tail(fields), a, oneof_index)
    IN IF fields = <<>> THEN acc
       ELSE rest[build_field(syntax, Head(fields), acc, oneof_index)]

\* build_oneof
build_oneof(syntax, oneof, acc) ==
    LET pushed[a \in Any] ==
           Acc(a.fields, a.messages, Append(a.oneofs, IrOneof(<<"Oneof", oneof>>)))
    IN pushed[build_oneof_fields(syntax, oneof.fields, acc,
                 Some(index_to_i32(Len(acc.oneofs))))]

\* build_message: the vector of messages afterwards
build_message(syntax, message, messages) ==
    LET built[b \in Any] ==
           Append(messages,
              IrMessage(<<"Message", message>>, b.fields, b.messages, b.oneofs))
    IN built[build_message_body(syntax, message.body)]

\* build_extend: the vector of messages afterwards
build_extend(syntax, fields, messages) ==
    LET rest[m \in Any] == build_extend(syntax, Tail(fields), m)
        built[field \in Any, b \in Any] ==
           Append(messages,
              IrMessage(<<"Group", field, field.body>>, b.fields, b.messages, b.oneofs))
    IN IF fields = <<>> THEN messages
       ELSE rest[IF Head(fields).kind = "Group"
                 THEN built[Head(fields), build_message_body(syntax, Head(fields).body)]
                 ELSE messages]

\* the loop of build_message_body over the items of the body
build_items(syntax, items, acc) ==
    LET rest[a \in Any] == build_items(syntax, Tail(items), a)
        item[it \in Any] ==
           CASE it.item = "Field" -> build_field(syntax, it.field, acc, None)
             [] it.item = "Message" ->
                  Acc(acc.fields, build_message(syntax, it, acc.messages), acc.oneofs)
             [] it.item = "Extend" ->
                  Acc(acc.fields, build_extend(syntax, it.fields, acc.messages), acc.oneofs)
             [] it.item = "Oneof" -> build_oneof(syntax, it, acc)
             [] it.item = "Enum" -> acc
    IN IF items = <<>> THEN acc ELSE rest[item[Head(items)]]

\* build_message_body
build_message_body(syntax, body) ==
    LET sorted[a \in Any] == Acc(a.fields, a.messages, sort_by(a.oneofs))
    IN sorted[build_items(syntax, body.items, Acc(<<>>, <<>>, <<>>))]

-----------------------------------------------------------------------------
(* File::build as a step machine, and its inputs *)

MaxItems == 3

Names == <<"f1", "f2", "f3", "f4", "f5">>

NamesA == <<"f1a", "f2a", "f3a", "f4a", "f5a">>

NamesB == <<"f1b", "f2b", "f3b", "f4b", "f5b">>

NamesC == <<"f1c", "f2c", "f3c", "f4c", "f5c">>

Int32 == Scalar("Int32")

Num(n) == AstInt(FALSE, n)

IrShapes ==
    {"opt", "bare", "rep", "group", "map", "oneof", "message", "extend", "extend_map",
     "enum"}

\* the item of the given shape at position i of a body; names are unique
IrItem(shape, i) ==
    CASE shape = "opt" ->
           FieldItem(NormalField(Names[i], Some("Optional"), Int32, Num(i), <<>>))
      [] shape = "bare" ->
           FieldItem(NormalField(Names[i], None, Int32, Num(i), <<>>))
      [] shape = "rep" ->
           FieldItem(NormalField(Names[i], Some("Repeated"), Int32, Num(i), <<>>))
      [] shape = "group" ->
           FieldItem(GroupField(Names[i], Some("Optional"),
              Body(<< FieldItem(NormalField(NamesA[i], Some("Optional"), Int32, Num(1), <<>>)),
                      OneofItem(NamesB[i],
                         << NormalField(NamesC[i], None, Int32, Num(2), <<>>) >>, <<>>) >>),
              Num(i), <<>>))
      [] shape = "map" ->
           FieldItem(MapField(Names[i], None, "String", Int32, Num(i), <<>>))
      [] shape = "oneof" ->
           OneofItem(Names[i],
              << NormalField(NamesA[i], Some("Optional"), Int32, Num(10 + i), <<>>),
                 NormalField(NamesB[i], None, Int32, Num(20 + i), <<>>),
                 MapField(NamesC[i], None, "String", Int32, Num(30 + i), <<>>) >>, <<>>)
      [] shape = "message" ->
           MessageItem(Names[i],
              Body(<< FieldItem(NormalField(NamesA[i], Some("Optional"), Int32, Num(1), <<>>)) >>))
      [] shape = "extend" ->
           ExtendItem(TypeName(FALSE, <<"M">>),
              << NormalField(NamesA[i], Some("Optional"), Int32, Num(100 + i), <<>>),
                 GroupField(NamesB[i], Some("Optional"),
                    Body(<< FieldItem(NormalField(NamesC[i], Some("Optional"), Int32, Num(1), <<>>)) >>),
                    Num(200 + i), <<>>) >>)
      [] shape = "extend_map" ->
           ExtendItem(TypeName(FALSE, <<"M">>),
              << MapField(NamesA[i], None, "String", Int32, Num(100 + i), <<>>) >>)
      [] shape = "enum" ->
           EnumItem(Names[i], <<>>, <<>>, <<>>)

IrBodies ==
    UNION { { [i \in 1..n |-> IrItem(shapes[i], i)] : shapes \in [1..n -> IrShapes] } :
            n \in 0..MaxItems }

Syntaxes == {"Proto2", "Proto3"}

\* ast::File
AstFile(syntax, package, items) == [syntax |-> syntax, package |-> package, items |-> items]

InitIr ==
    /\ \E syntax \in Syntaxes, items \in IrBodies :
         ir_ast = AstFile(syntax, <<>>,
                     << MessageItem("M", Body(items)),
                        IrItem("extend", 4),
                        IrItem("enum", 5),
                        ServiceItem("S", <<>>, <<>>) >>)
    /\ ir_todo = ir_ast.items
    /\ ir_messages = <<>>
    /\ ResolveIdle
    /\ DriverIdle
    /\ PassIdle
    /\ CheckIdle
    /\ TypeIdle
    /\ LabelIdle
    /\ NumberIdle
    /\ CommentsIdle

\* File::build, one iteration of the loop over the items of the file
BuildItem ==
    /\ ir_todo # <<>>
    /\ LET it == Head(ir_todo) IN
       ir_messages' =
          CASE it.item = "Message" -> build_message(ir_ast.syntax, it, ir_messages)
            [] it.item = "Extend" -> build_extend(ir_ast.syntax, it.fields, ir_messages)
            [] it.item \in {"Enum", "Service"} -> ir_messages
    /\ ir_todo' = Tail(ir_todo)
    /\ UNCHANGED <<ir_ast, exceptIr>>

NextIr == BuildItem

SpecIr == InitIr /\ [][NextIr]_vars

-----------------------------------------------------------------------------
(* C6, C7 *)

\* every message of the IR, at any depth
RECURSIVE IrTree(_)
IrTree(messages) ==
    Range(messages) \cup UNION { IrTree(m.messages) : m \in Range(messages) }

BodyOf(m) == IF m.ast[1] = "Message" THEN m.ast[2].body ELSE m.ast[3]

\* the fields a body declares, directly or inside an explicit oneof, in order
RECURSIVE BodyFields(_)
BodyFields(items) ==
    IF items = <<>> THEN <<>>
    ELSE LET it == Head(items) IN
         (CASE it.item = "Field" -> << [field |-> it.field, in_oneof |-> FALSE] >>
            [] it.item = "Oneof" ->
                 [i \in 1..Len(it.fields) |-> [field |-> it.fields[i], in_oneof |-> TRUE]]
            [] OTHER -> <<>>)
         \o BodyFields(Tail(items))

\* C6: for every field of a message or group body of a non-proto2 file, the
\* IR holds one field for it, and that field has is_synthetic_oneof = true and
\* a synthetic oneof of its own exactly when the field is a normal field (not
\* a group, not a map) labelled optional outside an explicit oneof; there is
\* one synthetic oneof per such field and no other, and none in a proto2
\* file.
C6_SyntheticOneof ==
    \A m \in { x \in IrTree(ir_messages) : x.ast[1] \in {"Message", "Group"} } :
       LET bf == BodyFields(BodyOf(m).items)
           eligible(e) == /\ ir_ast.syntax # "Proto2"
                          /\ e.field.kind = "Normal"
                          /\ e.field.label = Some("Optional")
                          /\ ~e.in_oneof IN
       /\ \A e \in Range(bf) :
             LET irs == { i \in 1..Len(m.fields) : m.fields[i].ast = <<"Field", e.field>> }
                 own == { j \in 1..Len(m.oneofs) : m.oneofs[j].ast = <<"Field", e.field>> } IN
             /\ Cardinality(irs) = 1
             /\ \A i \in irs : m.fields[i].is_synthetic_oneof = eligible(e)
             /\ eligible(e) => \A i \in irs : m.fields[i].oneof_index # None
             /\ Cardinality(own) = IF eligible(e) THEN 1 ELSE 0
       /\ \A j \in 1..Len(m.oneofs) :
             m.oneofs[j].ast[1] = "Field" =>
                \E e \in Range(bf) : eligible(e) /\ m.oneofs[j].ast[2] = e.field

\* a proto3 message with a synthetic oneof, next to an explicit oneof whose
\* member is labelled optional and gets none
C6_Witness ==
    /\ ir_ast.syntax = "Proto3"
    /\ \E m \in IrTree(ir_messages) :
          /\ \E i \in 1..Len(m.fields) : m.fields[i].is_synthetic_oneof
          /\ \E i \in 1..Len(m.fields) :
                /\ ~m.fields[i].is_synthetic_oneof
                /\ m.fields[i].ast[2].kind = "Normal"
                /\ m.fields[i].ast[2].label = Some("Optional")

\* the position in the body of the declaration an IR oneof stands for
DeclPos(body, oneof) ==
    CHOOSE i \in 1..Len(body.items) :
       \/ oneof.ast[1] = "Oneof" /\ body.items[i] = oneof.ast[2]
       \/ oneof.ast[1] = "Field" /\ body.items[i] = FieldItem(oneof.ast[2])

\* C7: in the oneofs of every IR message built from a body, every explicit
\* oneof precedes every synthetic one, explicit oneofs are in declaration
\* order and synthetic oneofs are in the declaration order of their fields.
C7_OneofOrder ==
    \A m \in { x \in IrTree(ir_messages) : x.ast[1] \in {"Message", "Group"} } :
       \A i, j \in 1..Len(m.oneofs) :
          i < j =>
             /\ ~(m.oneofs[i].ast[1] = "Field" /\ m.oneofs[j].ast[1] = "Oneof")
             /\ m.oneofs[i].ast[1] = m.oneofs[j].ast[1] =>
                   DeclPos(BodyOf(m), m.oneofs[i]) < DeclPos(BodyOf(m), m.oneofs[j])

\* optional field, explicit oneof, optional field: the explicit oneof comes
\* first, then the two synthetic ones in field order
C7_Witness ==
    /\ ir_ast.syntax = "Proto3"
    /\ \E m \in IrTree(ir_messages) :
          /\ m.ast[1] = "Message"
          /\ Len(m.oneofs) = 3
          /\ BodyOf(m).items[1] = IrItem("opt", 1)
          /\ BodyOf(m).items[2].item = "Oneof"
          /\ m.oneofs[1].ast[1] = "Oneof"
          /\ m.oneofs[2].ast = <<"Field", IrItem("opt", 1).field>>
          /\ m.oneofs[3].ast[1] = "Field"

(* C16 *)

\* the oneof a body declares field in: the explicit oneof listing it, or the
\* synthetic oneof standing for the field itself
DeclaresField(oneof, field) ==
    \/ oneof.ast[1] = "Oneof" /\ field \in Range(oneof.ast[2].fields)
    \/ oneof.ast[1] = "Field" /\ oneof.ast[2] = field

\* C16: in every IR message built from a body, a field whose oneof_index is
\* Some(i) has its oneof at position i (counted from 0) of the message's
\* sorted oneofs: the explicit oneof that lists it, or its own synthetic one.
C16_OneofIndex ==
    \A m \in { x \in IrTree(ir_messages) : x.ast[1] \in {"Message", "Group"} } :
       \A i \in 1..Len(m.fields) :
          m.fields[i].oneof_index # None =>
             LET index == m.fields[i].oneof_index[2] IN
             /\ index + 1 \in 1..Len(m.oneofs)
             /\ DeclaresField(m.oneofs[index + 1], m.fields[i].ast[2])

(* C24 *)

\* the map and group fields a list of items declares: directly, inside an
\* explicit oneof or inside an extend block
RECURSIVE ImplicitFields(_)
ImplicitFields(items) ==
    IF items = <<>> THEN <<>>
    ELSE LET it == Head(items)
             among(fields) ==
                SelectSeq(fields, LAMBDA f : f.kind \in {"Map", "Group"}) IN
         (CASE it.item = "Field" -> among(<< it.field >>)
            [] it.item \in {"Oneof", "Extend"} -> among(it.fields)
            [] OTHER -> <<>>)
         \o ImplicitFields(Tail(items))

\* the messages the builder is to make for the fields: one each
SyntheticFor(fields, messages) ==
    /\ \A f \in Range(fields) :
          Cardinality({ i \in 1..Len(messages) :
                           /\ messages[i].ast[1] = (IF f.kind = "Map" THEN "Map" ELSE "Group")
                           /\ messages[i].ast[2] = f }) = 1
    /\ Cardinality({ i \in 1..Len(messages) : messages[i].ast[1] \in {"Map", "Group"} })
          = Len(fields)

\* C24: the IR holds exactly one synthetic message per map field and one per
\* group field, wherever the field is declared: in a message body, an
\* explicit oneof, an extend block or a group body; and a Map message has
\* the two fields MapKey, MapValue in that order, no nested message and no
\* oneof.
C24_ImplicitMessages ==
    /\ ir_todo = <<>> => SyntheticFor(ImplicitFields(ir_ast.items), ir_messages)
    /\ \A m \in IrTree(ir_messages) :
          /\ m.ast[1] \in {"Message", "Group"} =>
                SyntheticFor(ImplicitFields(BodyOf(m).items), m.messages)
          /\ m.ast[1] = "Map" =>
                /\ Len(m.fields) = 2
                /\ m.fields[1].ast[1] = "MapKey" /\ m.fields[2].ast[1] = "MapValue"
                /\ m.messages = <<>> /\ m.oneofs = <<>>

-----------------------------------------------------------------------------
(* The second pass: Context *)

\* ast::ReservedRange and its end
RangeEndInt(value) == <<"Int", value>>

RangeEndMax == <<"Max">>

ReservedRange(start, end) == [start |-> start, end |-> end]

\* ast::Reserved
ReservedRanges(ranges) == [kind |-> "Ranges", ranges |-> ranges]

ReservedNames(names) == [kind |-> "Names", names |-> names]

\* ast::Extensions
Extensions(ranges, options) == [ranges |-> ranges, options |-> options]

\* ast::EnumValue
EnumValue(name, value, options) ==
    [name |-> Ident(name), value |-> value, options |-> options]

\* ast::Method
Method(name, input_ty, output_ty, options) ==
    [name |-> Ident(name), input_ty |-> input_ty, output_ty |-> output_ty,
     options |-> options]

\* TypeName::to_string
to_string(type_name) ==
    IF type_name.leading_dot THEN <<Dot>> \o type_name.name ELSE type_name.name

MAX_MESSAGE_FIELD_NUMBER == 536870911

\* Definition, the frames of the stack
DefPackage(full) == [def |-> "Package", full_name |-> full]

DefMessage(full) == [def |-> "Message", full_name |-> full]

DefService(full) == [def |-> "Service", full_name |-> full]

DefEnum == [def |-> "Enum"]

DefGroup == [def |-> "Group"]

DefOneof(index) == [def |-> "Oneof", index |-> index]

DefExtend(extendee) == [def |-> "Extend", extendee |-> extendee]

\* Context; file_map is whether the Option holds a map, panicked whether a
\* panic is unwinding, unbalanced whether it is the panic 'unbalanced stack'
\* of exit
Context(syntax, names, has_file_map) ==
    [syntax |-> syntax, errors |-> <<>>, stack |-> <<>>, names |-> names,
     file_map |-> has_file_map, panicked |-> FALSE, unbalanced |-> FALSE]

CheckError(kind, name) == [kind |-> kind, name |-> name]

push_error(ctx, kind, name) ==
    [ctx EXCEPT !.errors = Append(@, CheckError(kind, name))]

panic(ctx) == [ctx EXCEPT !.panicked = TRUE]

\* a context and the value returned with it
R(ctx, v) == [ctx |-> ctx, v |-> v]

\* a plausible slip: the frame is not pushed
ctx_enter_skipped(ctx, def) == ctx

\* Context::enter
ctx_enter(ctx, def) == [ctx EXCEPT !.stack = Append(@, def)]

\* Context::exit
ctx_exit(ctx) ==
    IF ctx.stack = <<>> THEN [panic(ctx) EXCEPT !.unbalanced = TRUE]
    ELSE [ctx EXCEPT !.stack = SubSeq(@, 1, Len(@) - 1)]

NamespaceDefs == {"Message", "Service", "Package"}

\* Context::scope_name, looking from frame i down
RECURSIVE scope_name_from(_, _)
scope_name_from(stack, i) ==
    IF i = 0 THEN <<>>
    ELSE IF stack[i].def \in NamespaceDefs THEN stack[i].full_name
    ELSE scope_name_from(stack, i - 1)

scope_name(ctx) == scope_name_from(ctx.stack, Len(ctx.stack))

\* Context::full_name
ctx_full_name(ctx, name) ==
    LET namespace == scope_name(ctx) IN
    IF namespace = <<>> THEN name ELSE namespace \o <<Dot>> \o name

\* Context::in_oneof
in_oneof(ctx) == ctx.stack # <<>> /\ ctx.stack[Len(ctx.stack)].def = "Oneof"

\* Context::in_extend
in_extend(ctx) == ctx.stack # <<>> /\ ctx.stack[Len(ctx.stack)].def = "Extend"

\* a plausible slip: the nearest extend frame anywhere on the stack
parent_extendee_any_frame(ctx) ==
    LET frames == { i \in 1..Len(ctx.stack) : ctx.stack[i].def = "Extend" } IN
    IF frames = {} THEN None
    ELSE Some(ctx.stack[CHOOSE i \in frames : \A j \in frames : j <= i].extendee)

\* Context::parent_extendee
parent_extendee(ctx) ==
    IF in_extend(ctx) THEN Some(ctx.stack[Len(ctx.stack)].extendee) ELSE None

\* Context::parent_oneof
parent_oneof(ctx) ==
    IF in_oneof(ctx) THEN Some(ctx.stack[Len(ctx.stack)].index) ELSE None

\* Context::check_label
\* check_label without the test of the oneof in its third branch
check_label_oneof_untested(ctx, label) ==
    IF in_extend(ctx) /\ label = Some("Required")
    THEN push_error(ctx, "RequiredExtendField", <<>>)
    ELSE IF in_oneof(ctx) /\ label # None
    THEN push_error(ctx, "OneofFieldWithLabel", <<>>)
    ELSE IF ctx.syntax = "Proto2" /\ label = None
    THEN push_error(ctx, "Proto2FieldMissingLabel", <<>>)
    ELSE IF ctx.syntax = "Proto3" /\ label = Some("Required")
    THEN push_error(ctx, "Proto3RequiredField", <<>>)
    ELSE ctx

\* Context::check_label
check_label(ctx, label) ==
    IF in_extend(ctx) /\ label = Some("Required")
    THEN push_error(ctx, "RequiredExtendField", <<>>)
    ELSE IF in_oneof(ctx) /\ label # None
    THEN push_error(ctx, "OneofFieldWithLabel", <<>>)
    ELSE IF ctx.syntax = "Proto2" /\ label = None /\ ~in_oneof(ctx)
    THEN push_error(ctx, "Proto2FieldMissingLabel", <<>>)
    ELSE IF ctx.syntax = "Proto3" /\ label = Some("Required")
    THEN push_error(ctx, "Proto3RequiredField", <<>>)
    ELSE ctx

\* the name resolve_relative_type_name looks up for a frame, and returns
frame_key(full, name) == <<Dot>> \o full \o <<Dot>> \o name

\* the loop of resolve_relative_type_name over the stack, from frame i down:
\* the pair returned from inside the loop, or None
RECURSIVE resolve_frames(_, _, _)
resolve_frames(ctx, name, i) ==
    IF i = 0 THEN None
    ELSE IF ctx.stack[i].def \in NamespaceDefs
            /\ get(ctx.names, frame_key(ctx.stack[i].full_name, name)) # None
    THEN Some([name |-> frame_key(ctx.stack[i].full_name, name),
               def |-> get(ctx.names, frame_key(ctx.stack[i].full_name, name))])
    ELSE resolve_frames(ctx, name, i - 1)

\* Context::resolve_relative_type_name
resolve_relative_type_name(ctx, name) ==
    LET after_loop[hit \in Any] ==
           IF hit # None THEN R(ctx, hit[2])
           ELSE IF get(ctx.names, name) # None
           THEN R(ctx, [name |-> <<Dot>> \o name, def |-> get(ctx.names, name)])
           ELSE R(push_error(ctx, "TypeNameNotFound", name), [name |-> name, def |-> None])
    IN after_loop[resolve_frames(ctx, name, Len(ctx.stack))]

\* Context::resolve_type_name
resolve_type_name(ctx, type_name) ==
    LET name == to_string(type_name) IN
    IF ~ctx.file_map THEN R(ctx, [name |-> name, def |-> None])
    ELSE IF type_name.leading_dot
    THEN IF get(ctx.names, name) # None
         THEN R(ctx, [name |-> name, def |-> get(ctx.names, name)])
         ELSE R(push_error(ctx, "TypeNameNotFound", name), [name |-> name, def |-> None])
    ELSE resolve_relative_type_name(ctx, name)

-----------------------------------------------------------------------------
(* One call of Context::resolve_type_name, from a position of the checker *)

MaxDepth == 3

NestSegs == <<"A", "B", "C", "D", "E">>

TypePackages == { <<>>, <<"p">>, <<"p", Dot, "q">> }

\* the messages A, A.B, A.B.C, ... of a file of the package, by depth
NestName(package, depth) == make_name(package, Join(SubSeq(NestSegs, 1, depth)))

\* the names the first pass records for the file: its package, one entry per
\* prefix, the nested messages and a service S, under keys without leading dot
NestNames(package) ==
    LET pkgs == IF package = <<>> THEN {}
                ELSE { Concat(SubSeq(Split(package), 1, n)) : n \in 1..Len(Split(package)) }
        msgs == { NestName(package, d) : d \in 1..MaxDepth }
        svcs == { make_name(package, <<"S">>) } IN
    [k \in pkgs \cup msgs \cup svcs |->
        Entry(Kind(IF k \in pkgs THEN "Package" ELSE IF k \in svcs THEN "Service"
                   ELSE "Message", 0),
              None, TRUE, None)]

\* the stack while the checker is inside the message of the given depth, or
\* inside the service, with the frame of a oneof, extend or group on top
NestStack(package, depth, in_service, top) ==
    (IF package = <<>> THEN <<>> ELSE << DefPackage(package) >>)
    \o (IF in_service THEN << DefService(make_name(package, <<"S">>)) >>
        ELSE [d \in 1..depth |-> DefMessage(NestName(package, d))])
    \o (CASE top = "Oneof" -> << DefOneof(0) >>
          [] top = "Extend" -> << DefExtend(<<Dot, "A">>) >>
          [] top = "Group" -> << DefGroup >>
          [] OTHER -> <<>>)

\* the names referenced: suffixes and prefixes of the nest, and one unknown
TypeRefs ==
    { Join(SubSeq(NestSegs, i, j)) : i \in 1..2, j \in 1..MaxDepth }
    \cup { <<"S">>, <<"X">>, <<"p", Dot, "A">>, <<"q", Dot, "A">>,
           <<"p", Dot, "q", Dot, "A", Dot, "B">> }

InitType ==
    /\ \E syntax \in Syntaxes, package \in TypePackages, depth \in 0..MaxDepth,
         in_service \in BOOLEAN, top \in {"None", "Oneof", "Extend", "Group"},
         has_file_map \in BOOLEAN :
         /\ in_service => depth = 0 /\ top = "None"
         /\ top # "None" => depth > 0
         /\ rt_ctx = [Context(syntax, NestNames(package), has_file_map)
                         EXCEPT !.stack = NestStack(package, depth, in_service, top)]
    /\ \E leading_dot \in BOOLEAN, name \in TypeRefs :
         rt_type_name = TypeName(leading_dot, name)
    /\ rt_result = None
    /\ ResolveIdle
    /\ DriverIdle
    /\ PassIdle
    /\ IrIdle
    /\ CheckIdle
    /\ LabelIdle
    /\ NumberIdle
    /\ CommentsIdle

\* the call: the pair returned, and the errors pushed
ResolveTypeName ==
    /\ rt_result = None
    /\ LET r == resolve_type_name(rt_ctx, rt_type_name) IN
       /\ rt_ctx' = r.ctx
       /\ rt_result' = Some(r.v)
    /\ UNCHANGED <<rt_type_name, exceptType>>

NextType == ResolveTypeName

SpecType == InitType /\ [][NextType]_vars

\* C10: a relative type name referenced from inside scope S resolves as
\* NameMap::resolve(S, name) does: to the first definition found from S.name
\* outwards, under its '.'-prefixed name and with its kind, and to nothing
\* when resolve finds nothing.
C10_SameAsResolve ==
    (rt_result # None /\ rt_ctx.file_map /\ ~rt_type_name.leading_dot) =>
       LET expected == resolve(rt_ctx.names, scope_name(rt_ctx), rt_type_name.name) IN
       IF expected = None THEN rt_result[2].def = None
       ELSE /\ rt_result[2].name = expected[2][1]
            /\ rt_result[2].def = Some(expected[2][2])

-----------------------------------------------------------------------------
(* One call of Context::check_label, from a position where a field is emitted *)

FieldLabels == {None, Some("Optional"), Some("Required"), Some("Repeated")}

\* the frames a field is emitted under: the message or group whose body holds
\* it, or the oneof or extend inside that body
FieldPositions == {"Message", "Oneof", "Extend", "Group"}

InitLabel ==
    /\ \E syntax \in Syntaxes, package \in TypePackages, depth \in 1..MaxDepth,
         top \in FieldPositions, has_file_map \in BOOLEAN :
         cl_ctx = [Context(syntax, NestNames(package), has_file_map)
                      EXCEPT !.stack = NestStack(package, depth, FALSE, top)]
    /\ cl_label \in FieldLabels
    /\ cl_result = None
    /\ ResolveIdle
    /\ DriverIdle
    /\ PassIdle
    /\ IrIdle
    /\ CheckIdle
    /\ TypeIdle
    /\ NumberIdle
    /\ CommentsIdle

\* the call: the Context afterwards
CheckLabel ==
    /\ cl_result = None
    /\ cl_result' = Some(check_label(cl_ctx, cl_label))
    /\ UNCHANGED <<cl_ctx, cl_label, exceptLabel>>

NextLabel == CheckLabel

SpecLabel == InitLabel /\ [][NextLabel]_vars

\* the label errors
LabelErrors ==
    {"RequiredExtendField", "OneofFieldWithLabel", "Proto2FieldMissingLabel",
     "Proto3RequiredField"}

\* the validation matrix: whether a field with the label, directly inside a
\* oneof, an extend or neither, is an error in the syntax
LabelMatrix(syntax, inside_oneof, inside_extend, label) ==
    \/ syntax = "Proto2" /\ label = None /\ ~inside_oneof
    \/ syntax = "Proto3" /\ label = Some("Required")
    \/ inside_extend /\ label = Some("Required")
    \/ inside_oneof /\ label # None

\* the errors a call added to those of the Context it started from
Pushed(before, after) == SubSeq(after.errors, Len(before.errors) + 1, Len(after.errors))

\* C11: check_label reports a label error exactly when the matrix says so:
\* one error of a label kind when the field's position, label and syntax are
\* an error of the matrix, none otherwise; it never reports two, and it leaves
\* the rest of the Context alone.
C11_LabelMatrix ==
    cl_result # None =>
       LET after == cl_result[2]
           pushed == Pushed(cl_ctx, after) IN
       /\ after = [cl_ctx EXCEPT !.errors = cl_ctx.errors \o pushed]
       /\ \A i \in 1..Len(pushed) : pushed[i].kind \in LabelErrors
       /\ Len(pushed) =
             IF LabelMatrix(cl_ctx.syntax, in_oneof(cl_ctx), in_extend(cl_ctx), cl_label)
             THEN 1 ELSE 0

\* a proto2 field without label inside a oneof has been checked
C11_Witness ==
    /\ cl_result # None
    /\ cl_ctx.syntax = "Proto2" /\ in_oneof(cl_ctx) /\ cl_label = None
    /\ cl_result[2].errors = <<>>

-----------------------------------------------------------------------------
(* The second pass: the descriptors and their emitters *)

FieldDescriptorProto(name, number, label, type, type_name, extendee, oneof_index, json_name, options, proto3_optional) ==
    [name |-> name, number |-> number, label |-> label, type |-> type,
     type_name |-> type_name, extendee |-> extendee, default_value |-> None,
     oneof_index |-> oneof_index, json_name |-> json_name, options |-> options,
     proto3_optional |-> proto3_optional]

DescriptorProto(name, field, extension, nested_type, enum_type, extension_range, oneof_decl, options, reserved_range, reserved_name) ==
    [name |-> name, field |-> field, extension |-> extension,
     nested_type |-> nested_type, enum_type |-> enum_type,
     extension_range |-> extension_range, oneof_decl |-> oneof_decl,
     options |-> options, reserved_range |-> reserved_range,
     reserved_name |-> reserved_name]

\* MessageOptions { map_entry: Some(true), ..Default::default() }
MapEntryOptions == [map_entry |-> Some(TRUE)]

\* Default::default() of an options message
DefaultOptions == [map_entry |-> None]

\* case::to_pascal_case, on the identifiers of the inputs
to_pascal_case(ident) ==
    CASE ident = "kv" -> "Kv"
      [] ident = "my_map" -> "MyMap"
      [] ident = "f1" -> "F1"
      [] ident = "f2" -> "F2"
      [] ident = "f3" -> "F3"
      [] OTHER -> ident

\* case::to_camel_case, on the identifiers of the inputs
to_camel_case(ident) ==
    CASE ident = "my_map" -> "myMap"
      [] ident = "G" -> "g"
      [] ident = "G1" -> "g1"
      [] ident = "G2" -> "g2"
      [] ident = "G3" -> "g3"
      [] OTHER -> ident

\* str::to_ascii_lowercase, on the identifiers of the inputs
to_ascii_lowercase(ident) ==
    CASE ident = "G" -> "g"
      [] ident = "G1" -> "g1"
      [] ident = "G2" -> "g2"
      [] ident = "G3" -> "g3"
      [] OTHER -> ident

\* an ast::Int whose value does not fit 31 bits: value = high * 2^31 + low,
\* kept as the two parts; AstInt(negative, value) is the case high = 0
AstWide(negative, high, low) == [negative |-> negative, value |-> low, high |-> high]

high_of(int) == IF "high" \in DOMAIN int THEN int.high ELSE 0

\* i32::try_from(value).ok() of the u64 value
i32_try_from(int) == IF high_of(int) = 0 THEN Some(int.value) ELSE None

\* a plausible slip: 0 is let through
to_field_number_from_zero(ctx, int) ==
    IF ~int.negative /\ i32_try_from(int) # None
       /\ int.value >= 0 /\ int.value <= MAX_MESSAGE_FIELD_NUMBER
    THEN R(ctx, Some(int.value))
    ELSE R(push_error(ctx, "InvalidMessageNumber", <<>>), None)

\* ast::Int::to_field_number
to_field_number(ctx, int) ==
    IF ~int.negative /\ i32_try_from(int) # None
       /\ int.value >= 1 /\ int.value <= MAX_MESSAGE_FIELD_NUMBER
    THEN R(ctx, Some(int.value))
    ELSE R(push_error(ctx, "InvalidMessageNumber", <<>>), None)

\* u64::checked_neg of the value: only 0 has a negation that is a u64
checked_neg(int) == IF high_of(int) = 0 /\ int.value = 0 THEN Some(0) ELSE None

\* ast::Int::to_enum_number
to_enum_number(ctx, int) ==
    LET as_i32 == IF int.negative THEN checked_neg(int) ELSE i32_try_from(int) IN
    R(IF as_i32 = None THEN push_error(ctx, "InvalidEnumNumber", <<>>) ELSE ctx, as_i32)

\* ast::FieldLabel::to_field_label of label.unwrap_or(Optional)
to_field_label(label) == IF label = None THEN Some("Optional") ELSE label

\* ast::Ty::to_type: the type and the type name
to_type(ctx, ty) ==
    LET resolved[r \in Any] ==
           IF r.v.def = None THEN R(r.ctx, [type |-> None, type_name |-> Some(r.v.name)])
           ELSE IF r.v.def[2].tag \in {"Message", "Enum", "Group"}
           THEN R(r.ctx, [type |-> Some(r.v.def[2].tag), type_name |-> Some(r.v.name)])
           ELSE R(push_error(r.ctx, "InvalidMessageFieldTypeName", to_string(ty[2])),
                  [type |-> None, type_name |-> Some(r.v.name)])
    IN IF ty[1] # "Named" THEN R(ctx, [type |-> Some(ty[1]), type_name |-> None])
       ELSE resolved[resolve_type_name(ctx, ty[2])]

\* todo!()
todo(ctx) == panic(ctx)

\* the options of a declaration, by the to_*_options that panics when called
options_or_todo(ctx, options) ==
    IF options = <<>> THEN R(ctx, None) ELSE R(todo(ctx), None)

\* the options of a field, by to_field_options
field_options(options) == IF options = <<>> THEN None ELSE Some(DefaultOptions)

\* the default value of a field: None without options, and with options the
\* first component of what to_field_options returns, Default::default()
default_value(options) == None

\* the InvalidDefault pushed when a field that cannot have a default has one
invalid_default(ctx, options, kind, cannot) ==
    IF default_value(options) # None /\ cannot
    THEN push_error(ctx, "InvalidDefault", <<kind>>) ELSE ctx

\* debug_assert_eq!(def, Some(kind))
debug_assert_kind(ctx, def, kind) ==
    IF debug_build /\ ~(def # None /\ def[2].tag = kind) THEN panic(ctx) ELSE ctx

\* ast::Field::to_field_descriptor: the number, the type, the check of the
\* label, the descriptor
normal_to_field_descriptor(ctx, field) ==
    LET descriptor[c \in Any, ty \in Any, number \in Any] ==
           R(c, FieldDescriptorProto(Some(field.name), number, to_field_label(field.label),
                   ty.type, ty.type_name, parent_extendee(c), parent_oneof(c),
                   Some(<<to_camel_case(field.name[1])>>), field_options(field.options),
                   IF c.syntax = "Proto3" /\ field.label = Some("Optional")
                   THEN Some(TRUE) ELSE None))
        typed[t \in Any, number \in Any] ==
           descriptor[invalid_default(check_label(t.ctx, field.label), field.options,
                         "message", t.v.type = Some("Message")),
                      t.v, number]
        numbered[n \in Any] == typed[to_type(n.ctx, field.ty), n.v]
    IN numbered[to_field_number(ctx, field.number)]

\* ast::Map::generate_message_descriptor
generate_message_descriptor(ctx, map) ==
    LET descriptor[t \in Any] ==
           R(t.ctx,
             DescriptorProto(Some(<<to_pascal_case(map.name[1]) \o "Entry">>),
                << FieldDescriptorProto(Some(<<"key">>), Some(1), Some("Optional"),
                      Some(map.key_ty), None, None, None, Some(<<"key">>), None, None),
                   FieldDescriptorProto(Some(<<"value">>), Some(2), Some("Optional"),
                      t.v.type, t.v.type_name, None, None, Some(<<"value">>), None, None) >>,
                <<>>, <<>>, <<>>, <<>>, <<>>, Some(MapEntryOptions), <<>>, <<>>))
    IN descriptor[to_type(ctx, map.ty)]

\* ast::Map::to_field_descriptor: the number, the generated message, its name
\* resolved, the assertion, the push, the check of the label, the descriptor
map_to_field_descriptor(ctx, map, messages) ==
    LET descriptor[c \in Any, type_name \in Any, generated_message \in Any, number \in Any] ==
           [ctx |-> c,
            messages |-> Append(messages, generated_message),
            v |-> FieldDescriptorProto(Some(map.name), number, Some("Repeated"),
                     Some("Message"), Some(type_name), parent_extendee(c), parent_oneof(c),
                     Some(<<to_camel_case(map.name[1])>>), field_options(map.options), None)]
        asserted[a \in Any, type_name \in Any, generated_message \in Any, number \in Any] ==
           descriptor[invalid_default(IF map.label # None
                                      THEN push_error(a, "MapFieldWithLabel", <<>>)
                                      ELSE a,
                                      map.options, "map", TRUE),
                      type_name, generated_message, number]
        resolved[r \in Any, generated_message \in Any, number \in Any] ==
           asserted[debug_assert_kind(r.ctx, r.v.def, "Message"), r.v.name,
                    generated_message, number]
        generated[g \in Any, number \in Any] ==
           resolved[resolve_relative_type_name(g.ctx, g.v.name[2]), g.v, number]
        numbered[n \in Any] == generated[generate_message_descriptor(n.ctx, map), n.v]
    IN numbered[to_field_number(ctx, map.number)]

RECURSIVE body_to_message_descriptor(_, _)
RECURSIVE body_items(_, _, _)
RECURSIVE to_field_descriptors(_, _, _, _, _)
RECURSIVE fields_to_field_descriptors(_, _, _, _)
RECURSIVE message_to_message_descriptor(_, _)

\* ast::Group::to_field_descriptor: the number, the check of the syntax and of
\* the label, the body between enter and exit, the name of the generated
\* message resolved, the assertion, the push, the descriptor
group_to_field_descriptor(ctx, group, messages) ==
    LET descriptor[c \in Any, type_name \in Any, generated_message \in Any, number \in Any] ==
           [ctx |-> c,
            messages |-> Append(messages, generated_message),
            v |-> FieldDescriptorProto(Some(<<to_ascii_lowercase(group.name[1])>>), number,
                     to_field_label(group.label), Some("Group"), Some(type_name),
                     parent_extendee(c), parent_oneof(c),
                     Some(<<to_camel_case(group.name[1])>>), field_options(group.options),
                     None)]
        resolved[r \in Any, generated_message \in Any, number \in Any] ==
           descriptor[debug_assert_kind(r.ctx, r.v.def, "Group"), r.v.name,
                      generated_message, number]
        generated[b \in Any, number \in Any] ==
           resolved[resolve_relative_type_name(ctx_exit(b.ctx), group.name),
                    [b.v EXCEPT !.name = Some(group.name)], number]
        numbered[n \in Any] ==
           generated[
              body_to_message_descriptor(
                 ctx_enter(invalid_default(IF n.ctx.syntax = "Proto3"
                                           THEN push_error(n.ctx, "Proto3GroupField", <<>>)
                                           ELSE check_label(n.ctx, group.label),
                                           group.options, "group", TRUE),
                           DefGroup),
                 group.body),
              n.v]
    IN numbered[to_field_number(ctx, group.number)]

\* the loop of Extend::to_field_descriptors and of to_oneof_descriptor over
\* their fields, each with a vector of oneofs of its own that must be empty
\* afterwards
fields_to_field_descriptors(ctx, fields, messages, out) ==
    LET emitted[r \in Any] ==
           fields_to_field_descriptors(
              IF debug_build /\ r.oneofs # <<>> THEN panic(r.ctx) ELSE r.ctx,
              Tail(fields), r.messages, r.fields)
    IN IF fields = <<>> THEN [ctx |-> ctx, messages |-> messages, fields |-> out]
       ELSE emitted[to_field_descriptors(ctx, Head(fields), messages, out, <<>>)]

\* ast::Oneof::to_oneof_descriptor: the fields after enter, the options, exit
to_oneof_descriptor(ctx, oneof, messages, fields, index) ==
    LET descriptor[o \in Any, l \in Any] ==
           [ctx |-> ctx_exit(o.ctx), messages |-> l.messages, fields |-> l.fields,
            v |-> [name |-> Some(oneof.name), options |-> o.v]]
        emitted[l \in Any] == descriptor[options_or_todo(l.ctx, oneof.options), l]
    IN emitted[fields_to_field_descriptors(ctx_enter(ctx, DefOneof(index_to_i32(index))),
                  oneof.fields, messages, fields)]

\* ast::Extend::to_field_descriptors: the extendee resolved and checked, the
\* fields between enter and exit
extend_to_field_descriptors(ctx, extend, messages, fields) ==
    LET emitted[l \in Any] ==
           [ctx |-> ctx_exit(l.ctx), messages |-> l.messages, fields |-> l.fields]
        resolved[r \in Any] ==
           emitted[
              fields_to_field_descriptors(
                 ctx_enter(IF r.v.def = None \/ r.v.def[2].tag \in {"Message", "Group"}
                           THEN r.ctx
                           ELSE push_error(r.ctx, "InvalidExtendeeTypeName",
                                   to_string(extend.extendee)),
                           DefExtend(r.v.name)),
                 extend.fields, messages, fields)]
    IN resolved[resolve_type_name(ctx, extend.extendee)]

\* MessageField: a field by its kind, or a oneof
kind_of(f) == IF "kind" \in DOMAIN f THEN f.kind ELSE "Oneof"

\* ast::MessageField::kind_name
kind_name(f) ==
    CASE kind_of(f) = "Normal" -> <<"normal">>
      [] kind_of(f) = "Group" -> <<"group">>
      [] kind_of(f) = "Map" -> <<"map">>
      [] kind_of(f) = "Oneof" -> <<"oneof">>

\* ast::MessageField::to_field_descriptors: the three vectors afterwards
to_field_descriptors(ctx, f, messages, fields, oneofs) ==
    LET field_pushed[r \in Any] ==
           [ctx |-> r.ctx, messages |-> messages, fields |-> Append(fields, r.v),
            oneofs |-> oneofs]
        generated_pushed[r \in Any] ==
           [ctx |-> r.ctx, messages |-> r.messages, fields |-> Append(fields, r.v),
            oneofs |-> oneofs]
        oneof_pushed[r \in Any] ==
           [ctx |-> r.ctx, messages |-> r.messages, fields |-> r.fields,
            oneofs |-> Append(oneofs, r.v)]
    IN IF in_oneof(ctx) /\ kind_of(f) \in {"Oneof", "Map"}
       THEN [ctx |-> push_error(ctx, "InvalidOneofFieldKind", kind_name(f)),
             messages |-> messages, fields |-> fields, oneofs |-> oneofs]
       ELSE IF in_extend(ctx) /\ kind_of(f) \in {"Oneof", "Map"}
       THEN [ctx |-> push_error(ctx, "InvalidExtendFieldKind", kind_name(f)),
             messages |-> messages, fields |-> fields, oneofs |-> oneofs]
       ELSE CASE kind_of(f) = "Normal" ->
                   field_pushed[normal_to_field_descriptor(ctx, f)]
              [] kind_of(f) = "Group" ->
                   generated_pushed[group_to_field_descriptor(ctx, f, messages)]
              [] kind_of(f) = "Map" ->
                   generated_pushed[map_to_field_descriptor(ctx, f, messages)]
              [] kind_of(f) = "Oneof" ->
                   oneof_pushed[to_oneof_descriptor(ctx, f, messages, fields, Len(oneofs))]

\* the end of a message range: one past a single number, the number written
\* after `to` as to_field_number gives it, one past the maximum for `max`
range_end(ctx, start, end) ==
    CASE end = None -> R(ctx, IF start = None THEN None ELSE Some(start[2] + 1))
      [] end[1] = "Int" -> to_field_number(ctx, end[2])
      [] end[1] = "Max" -> R(ctx, Some(MAX_MESSAGE_FIELD_NUMBER + 1))

\* ast::ReservedRange::to_reserved_range
to_reserved_range(ctx, range) ==
    LET ended[e \in Any, start \in Any] == R(e.ctx, [start |-> start, end |-> e.v])
        started[s \in Any] == ended[range_end(s.ctx, s.v, range.end), s.v]
    IN started[to_field_number(ctx, range.start)]

\* ast::ReservedRange::to_extension_range
to_extension_range(ctx, range) ==
    LET ended[e \in Any, start \in Any] == R(e.ctx, [start |-> start, end |-> e.v, options |-> None])
        started[s \in Any] == ended[range_end(s.ctx, s.v, range.end), s.v]
    IN started[to_field_number(ctx, range.start)]

\* ast::ReservedRange::to_enum_reserved_range
to_enum_reserved_range(ctx, range) ==
    LET ended[e \in Any, start \in Any] == R(e.ctx, [start |-> start, end |-> e.v])
        started[s \in Any] ==
           ended[CASE range.end = None -> R(s.ctx, s.v)
                   [] range.end[1] = "Int" -> to_enum_number(s.ctx, range.end[2])
                   [] range.end[1] = "Max" -> R(s.ctx, Some(2147483647)),
                 s.v]
    IN started[to_enum_number(ctx, range.start)]

\* the loop of to_extension_ranges over the ranges of the statement
RECURSIVE extension_ranges(_, _, _, _)
extension_ranges(ctx, ranges, options, out) ==
    LET pushed[r \in Any] ==
           extension_ranges(r.ctx, Tail(ranges), options,
              Append(out, [r.v EXCEPT !.options = options]))
    IN IF ranges = <<>> THEN R(ctx, out)
       ELSE pushed[to_extension_range(ctx, Head(ranges))]

\* ast::Extensions::to_extension_ranges: the ranges afterwards
to_extension_ranges(ctx, extensions, ranges) ==
    LET with_options[o \in Any] == extension_ranges(o.ctx, extensions.ranges, o.v, ranges)
    IN with_options[options_or_todo(ctx, extensions.options)]

\* reserved_range.extend(ranges.iter().map(to_reserved_range)) of a message
RECURSIVE reserved_ranges(_, _, _)
reserved_ranges(ctx, ranges, out) ==
    LET pushed[r \in Any] == reserved_ranges(r.ctx, Tail(ranges), Append(out, r.v))
    IN IF ranges = <<>> THEN R(ctx, out)
       ELSE pushed[to_reserved_range(ctx, Head(ranges))]

\* the loop over the reserved statements of a message
RECURSIVE message_reserved(_, _, _)
message_reserved(ctx, reserved, out) ==
    LET extended[m \in Any] ==
           message_reserved(m.ctx, Tail(reserved), [out EXCEPT !.reserved_range = m.v])
    IN IF reserved = <<>> THEN R(ctx, out)
       ELSE IF Head(reserved).kind = "Ranges"
       THEN extended[reserved_ranges(ctx, Head(reserved).ranges, out.reserved_range)]
       ELSE message_reserved(ctx, Tail(reserved),
               [out EXCEPT !.reserved_name = @ \o Head(reserved).names])

\* reserved_range.extend(ranges.iter().map(to_enum_reserved_range)) of an enum
RECURSIVE enum_reserved_ranges(_, _, _)
enum_reserved_ranges(ctx, ranges, out) ==
    LET pushed[r \in Any] == enum_reserved_ranges(r.ctx, Tail(ranges), Append(out, r.v))
    IN IF ranges = <<>> THEN R(ctx, out)
       ELSE pushed[to_enum_reserved_range(ctx, Head(ranges))]

\* the loop over the reserved statements of an enum
RECURSIVE enum_reserved(_, _, _)
enum_reserved(ctx, reserved, out) ==
    LET extended[m \in Any] ==
           enum_reserved(m.ctx, Tail(reserved), [out EXCEPT !.reserved_range = m.v])
    IN IF reserved = <<>> THEN R(ctx, out)
       ELSE IF Head(reserved).kind = "Ranges"
       THEN extended[enum_reserved_ranges(ctx, Head(reserved).ranges, out.reserved_range)]
       ELSE enum_reserved(ctx, Tail(reserved),
               [out EXCEPT !.reserved_name = @ \o Head(reserved).names])

\* ast::EnumValue::to_enum_value_descriptor
to_enum_value_descriptor(ctx, value) ==
    LET descriptor[o \in Any, number \in Any] ==
           R(o.ctx, [name |-> Some(value.name), number |-> number, options |-> o.v])
        numbered[n \in Any] == descriptor[options_or_todo(n.ctx, value.options), n.v]
    IN numbered[to_enum_number(ctx, value.value)]

\* values.iter().map(to_enum_value_descriptor).collect()
RECURSIVE enum_values(_, _, _)
enum_values(ctx, values, out) ==
    LET pushed[r \in Any] == enum_values(r.ctx, Tail(values), Append(out, r.v))
    IN IF values = <<>> THEN R(ctx, out)
       ELSE pushed[to_enum_value_descriptor(ctx, Head(values))]

\* ast::Enum::to_enum_descriptor: the values after enter, the options, the
\* reserved statements, exit
to_enum_descriptor(ctx, enum) ==
    LET descriptor[r \in Any, options \in Any, values \in Any] ==
           R(ctx_exit(r.ctx),
             [name |-> Some(enum.name), value |-> values, options |-> options,
              reserved_range |-> r.v.reserved_range, reserved_name |-> r.v.reserved_name])
        with_options[o \in Any, values \in Any] ==
           descriptor[enum_reserved(o.ctx, enum.reserved,
                         [reserved_range |-> <<>>, reserved_name |-> <<>>]),
                      o.v, values]
        with_values[v \in Any] == with_options[options_or_todo(v.ctx, enum.options), v.v]
    IN with_values[enum_values(ctx_enter(ctx, DefEnum), enum.values, <<>>)]

\* the check of a method's input or output type: the name, and the error when
\* it resolved to something that is no message
method_type(ctx, type_name) ==
    LET resolved[r \in Any] ==
           R(IF r.v.def = None \/ r.v.def[2].tag \in {"Message", "Group"} THEN r.ctx
             ELSE push_error(r.ctx, "InvalidMethodTypeName", to_string(type_name)),
             r.v.name)
    IN resolved[resolve_type_name(ctx, type_name)]

\* ast::Method::to_method_descriptor: the input type, the output type, the
\* options
to_method_descriptor(ctx, method) ==
    LET descriptor[o \in Any, input_type \in Any, output_type \in Any] ==
           R(o.ctx, [name |-> Some(method.name), input_type |-> Some(input_type),
                     output_type |-> Some(output_type), options |-> o.v])
        with_output[u \in Any, input_type \in Any] ==
           descriptor[options_or_todo(u.ctx, method.options), input_type, u.v]
        with_input[i \in Any] == with_output[method_type(i.ctx, method.output_ty), i.v]
    IN with_input[method_type(ctx, method.input_ty)]

\* methods.iter().map(to_method_descriptor).collect()
RECURSIVE service_methods(_, _, _)
service_methods(ctx, methods, out) ==
    LET pushed[r \in Any] == service_methods(r.ctx, Tail(methods), Append(out, r.v))
    IN IF methods = <<>> THEN R(ctx, out)
       ELSE pushed[to_method_descriptor(ctx, Head(methods))]

\* ast::Service::to_service_descriptor: the options, the methods between
\* enter and exit
to_service_descriptor(ctx, service) ==
    LET descriptor[m \in Any, options \in Any] ==
           R(ctx_exit(m.ctx),
             [name |-> Some(service.name), method |-> m.v, options |-> options])
        with_options[o \in Any] ==
           descriptor[
              service_methods(
                 ctx_enter(o.ctx, DefService(ctx_full_name(o.ctx, service.name))),
                 service.methods, <<>>),
              o.v]
    IN with_options[options_or_todo(ctx, service.options)]

\* nested_type.push(message), at the front instead
push_nested_front(nested_type, message) == <<message>> \o nested_type

\* nested_type.push(m.to_message_descriptor(ctx))
push_nested(nested_type, message) == Append(nested_type, message)

\* the loop of MessageBody::to_message_descriptor over the items, and its
\* match on one item
body_items(ctx, items, acc) ==
    LET rest[r \in Any] == body_items(r.ctx, Tail(items), r.v)
        fields_into[r \in Any] ==
           R(r.ctx, [acc EXCEPT !.nested_type = r.messages, !.field = r.fields,
                                !.oneof_decl = r.oneofs])
        enum_into[r \in Any] == R(r.ctx, [acc EXCEPT !.enum_type = Append(@, r.v)])
        message_into[r \in Any] == R(r.ctx, [acc EXCEPT !.nested_type = push_nested(@, r.v)])
        extend_into[r \in Any] ==
           R(r.ctx, [acc EXCEPT !.nested_type = r.messages, !.extension = r.fields])
        item[it \in Any] ==
           CASE it.item \in {"Field", "Oneof"} ->
                  fields_into[to_field_descriptors(ctx,
                                 IF it.item = "Field" THEN it.field ELSE it,
                                 acc.nested_type, acc.field, acc.oneof_decl)]
             [] it.item = "Enum" -> enum_into[to_enum_descriptor(ctx, it)]
             [] it.item = "Message" -> message_into[message_to_message_descriptor(ctx, it)]
             [] it.item = "Extend" ->
                  extend_into[extend_to_field_descriptors(ctx, it, acc.nested_type,
                                 acc.extension)]
    IN IF items = <<>> THEN R(ctx, acc) ELSE rest[item[Head(items)]]

\* the loop over the extensions statements of a body
RECURSIVE body_extensions(_, _, _)
body_extensions(ctx, extensions, ranges) ==
    LET pushed[r \in Any] == body_extensions(r.ctx, Tail(extensions), r.v)
    IN IF extensions = <<>> THEN R(ctx, ranges)
       ELSE pushed[to_extension_ranges(ctx, Head(extensions), ranges)]

\* ast::MessageBody::to_message_descriptor: the items, the extensions
\* statements, the options, the reserved statements, the descriptor
body_to_message_descriptor(ctx, body) ==
    LET descriptor[r \in Any, options \in Any, extension_range \in Any, acc \in Any] ==
           R(r.ctx, DescriptorProto(None, acc.field, acc.extension, acc.nested_type,
                       acc.enum_type, extension_range, acc.oneof_decl, options,
                       r.v.reserved_range, r.v.reserved_name))
        with_options[o \in Any, extension_range \in Any, acc \in Any] ==
           descriptor[message_reserved(o.ctx, body.reserved,
                         [reserved_range |-> <<>>, reserved_name |-> <<>>]),
                      o.v, extension_range, acc]
        with_extensions[e \in Any, acc \in Any] ==
           with_options[options_or_todo(e.ctx, body.options), e.v, acc]
        with_items[a \in Any] == with_extensions[body_extensions(a.ctx, body.extensions, <<>>), a.v]
    IN with_items[body_items(ctx, body.items,
                     [field |-> <<>>, nested_type |-> <<>>, enum_type |-> <<>>,
                      oneof_decl |-> <<>>, extension |-> <<>>])]

\* ast::Message::to_message_descriptor
message_to_message_descriptor(ctx, message) ==
    LET named[b \in Any] == R(ctx_exit(b.ctx), [b.v EXCEPT !.name = Some(message.name)])
    IN named[body_to_message_descriptor(
                ctx_enter(ctx, DefMessage(ctx_full_name(ctx, message.name))),
                message.body)]

-----------------------------------------------------------------------------
(* One call of ast::Int::to_field_number or ast::Int::to_enum_number *)

I32_MAX == 2147483647

\* the low 31 bits of the literals tried
NumberLows ==
    {0, 1, 2, MAX_MESSAGE_FIELD_NUMBER - 1, MAX_MESSAGE_FIELD_NUMBER,
     MAX_MESSAGE_FIELD_NUMBER + 1, I32_MAX - 1, I32_MAX}

\* and what is above them: 0, 2^31 and 2^32 added
NumberHighs == {0, 1, 2}

NumberLiterals ==
    { AstInt(negative, low) : negative \in BOOLEAN, low \in NumberLows }
    \cup { AstWide(negative, high, low) :
              negative \in BOOLEAN, high \in NumberHighs \ {0}, low \in NumberLows }

InitNumber ==
    /\ \E syntax \in Syntaxes, reported \in BOOLEAN :
          nm_ctx = IF reported
                   THEN push_error(Context(syntax, EmptyMap, FALSE), "Proto3GroupField", <<"G">>)
                   ELSE Context(syntax, EmptyMap, FALSE)
    /\ nm_int \in NumberLiterals
    /\ nm_op \in {"to_field_number", "to_enum_number"}
    /\ nm_result = None
    /\ ResolveIdle
    /\ DriverIdle
    /\ PassIdle
    /\ IrIdle
    /\ CheckIdle
    /\ TypeIdle
    /\ LabelIdle
    /\ CommentsIdle

\* the call of to_field_number: the Context afterwards and the number returned
ToFieldNumber ==
    /\ nm_op = "to_field_number" /\ nm_result = None
    /\ nm_result' = Some(to_field_number(nm_ctx, nm_int))
    /\ UNCHANGED <<nm_ctx, nm_int, nm_op, exceptNumber>>

\* the call of to_enum_number
ToEnumNumber ==
    /\ nm_op = "to_enum_number" /\ nm_result = None
    /\ nm_result' = Some(to_enum_number(nm_ctx, nm_int))
    /\ UNCHANGED <<nm_ctx, nm_int, nm_op, exceptNumber>>

NextNumber ==
    \/ ToFieldNumber
    \/ ToEnumNumber

SpecNumber == InitNumber /\ [][NextNumber]_vars

-----------------------------------------------------------------------------
(* The second pass over a file, item by item *)

FileDescriptorProto(package, message_type, enum_type, service, extension) ==
    [package |-> package, message_type |-> message_type, enum_type |-> enum_type,
     service |-> service, extension |-> extension]

NameEntry(tag) == Entry(Kind(tag, 0), None, TRUE, None)

\* the type-level names of a list of fields, in the scope around them: the
\* messages of groups and, for the fields of a body, of maps
RECURSIVE NamesOfFields(_, _, _)
RECURSIVE NamesOfItems(_, _)
NamesOfFields(scope, fields, in_body) ==
    IF fields = <<>> THEN {}
    ELSE LET f == Head(fields) IN
         (CASE kind_of(f) = "Group" ->
                 { <<make_name(scope, f.name), "Group">> }
                 \cup NamesOfItems(make_name(scope, f.name), f.body.items)
            [] kind_of(f) = "Map" /\ in_body ->
                 { <<make_name(scope, <<to_pascal_case(f.name[1]) \o "Entry">>), "Message">> }
            [] kind_of(f) = "Oneof" /\ in_body -> NamesOfFields(scope, f.fields, FALSE)
            [] OTHER -> {})
         \cup NamesOfFields(scope, Tail(fields), in_body)

\* the type-level names of a list of items: <<key, kind>> pairs
NamesOfItems(scope, items) ==
    IF items = <<>> THEN {}
    ELSE LET it == Head(items) IN
         (CASE it.item = "Message" ->
                 { <<make_name(scope, it.name), "Message">> }
                 \cup NamesOfItems(make_name(scope, it.name), it.body.items)
            [] it.item = "Enum" -> { <<make_name(scope, it.name), "Enum">> }
            [] it.item = "Service" -> { <<make_name(scope, it.name), "Service">> }
            [] it.item = "Field" -> NamesOfFields(scope, << it.field >>, TRUE)
            [] it.item = "Oneof" -> NamesOfFields(scope, it.fields, FALSE)
            [] it.item = "Extend" -> NamesOfFields(scope, it.fields, FALSE))
         \cup NamesOfItems(scope, Tail(items))

\* the NameMap of the file's own definitions, keyed as the first pass keys
\* them: full names without leading dot
NamesOfFile(ast) ==
    LET pkgs == IF ast.package = <<>> THEN {}
                ELSE { <<Concat(SubSeq(Split(ast.package), 1, n)), "Package">> :
                          n \in 1..Len(Split(ast.package)) }
        pairs == pkgs \cup NamesOfItems(ast.package, ast.items) IN
    [k \in { pr[1] : pr \in pairs } |->
        NameEntry((CHOOSE pr \in pairs : pr[1] = k)[2])]

CheckRunning == ck_pc = "items" /\ ck_todo # <<>>

\* the pass goes on after an item unless it panicked
AfterItem(ctx, file) ==
    /\ ck_ctx' = ctx
    /\ ck_file' = IF ctx.panicked THEN ck_file ELSE file
    /\ ck_pc' = IF ctx.panicked THEN "panicked" ELSE "items"
    /\ ck_todo' = IF ctx.panicked THEN ck_todo ELSE Tail(ck_todo)
    /\ UNCHANGED <<ck_ast, debug_build, exceptCheck>>

\* the package of the file is entered
CheckBegin ==
    /\ ck_pc = "start"
    /\ ck_ctx' = IF ck_ast.package = <<>> THEN ck_ctx
                 ELSE ctx_enter(ck_ctx, DefPackage(ck_ast.package))
    /\ ck_pc' = "items"
    /\ UNCHANGED <<ck_ast, ck_todo, ck_file, debug_build, exceptCheck>>

CheckMessage ==
    /\ CheckRunning /\ Head(ck_todo).item = "Message"
    /\ LET pushed(r) == AfterItem(r.ctx, [ck_file EXCEPT !.message_type = Append(@, r.v)])
       IN pushed(message_to_message_descriptor(ck_ctx, Head(ck_todo)))

CheckEnum ==
    /\ CheckRunning /\ Head(ck_todo).item = "Enum"
    /\ LET pushed(r) == AfterItem(r.ctx, [ck_file EXCEPT !.enum_type = Append(@, r.v)])
       IN pushed(to_enum_descriptor(ck_ctx, Head(ck_todo)))

CheckExtend ==
    /\ CheckRunning /\ Head(ck_todo).item = "Extend"
    /\ LET pushed(r) ==
              AfterItem(r.ctx, [ck_file EXCEPT !.message_type = r.messages,
                                               !.extension = r.fields])
       IN pushed(extend_to_field_descriptors(ck_ctx, Head(ck_todo),
                    ck_file.message_type, ck_file.extension))

CheckService ==
    /\ CheckRunning /\ Head(ck_todo).item = "Service"
    /\ LET pushed(r) == AfterItem(r.ctx, [ck_file EXCEPT !.service = Append(@, r.v)])
       IN pushed(to_service_descriptor(ck_ctx, Head(ck_todo)))

\* the package is left and the descriptor returned with the errors
CheckReturn ==
    /\ ck_pc = "items" /\ ck_todo = <<>>
    /\ ck_ctx' = IF ck_ast.package = <<>> THEN ck_ctx ELSE ctx_exit(ck_ctx)
    /\ ck_pc' = "returned"
    /\ UNCHANGED <<ck_ast, ck_todo, ck_file, debug_build, exceptCheck>>

NextCheck ==
    \/ CheckBegin
    \/ CheckMessage
    \/ CheckEnum
    \/ CheckExtend
    \/ CheckService
    \/ CheckReturn

-----------------------------------------------------------------------------
(* Input files of the second pass *)

MaxBody == 2

MaxRanges == 2

FieldNames == <<"f1", "f2", "f3", "f4">>

GroupNames == <<"G1", "G2", "G3", "G4">>

NestedNames == <<"N1", "N2", "N3", "N4">>

EnumNames == <<"E1", "E2", "E3", "E4">>

AnOption == << <<"deprecated">> >>

\* [default = ...]
ADefault == << <<"default">> >>

Plain(name, label, number) == NormalField(name, label, Int32, Num(number), <<>>)

CkShapes ==
    {"opt", "bare", "req", "named", "map", "map_label", "group", "group_default", "oneof",
     "oneof_malformed", "oneof_option", "message", "message_option", "enum",
     "enum_option", "value_option", "extend", "extend_malformed"}

\* the item of the given shape at position i of the body of M
CkItem(shape, i) ==
    CASE shape = "opt" -> FieldItem(Plain(FieldNames[i], Some("Optional"), i))
      [] shape = "bare" -> FieldItem(Plain(FieldNames[i], None, i))
      [] shape = "req" -> FieldItem(Plain(FieldNames[i], Some("Required"), i))
      [] shape = "named" ->
           FieldItem(NormalField(FieldNames[i], Some("Optional"),
              Named(FALSE, <<"M">>), Num(i), AnOption))
      [] shape = "map" ->
           FieldItem(MapField(FieldNames[i], None, "String", Int32, Num(i), <<>>))
      [] shape = "map_label" ->
           FieldItem(MapField(FieldNames[i], Some("Repeated"), "String",
              Named(FALSE, <<"M">>), Num(0), <<>>))
      [] shape = "group" ->
           FieldItem(GroupField(GroupNames[i], Some("Optional"),
              Body(<< FieldItem(Plain("a", Some("Optional"), 1)) >>), Num(i), <<>>))
      [] shape = "group_default" ->
           FieldItem(GroupField(GroupNames[i], Some("Repeated"), Body(<<>>), Num(i), ADefault))
      [] shape = "oneof" ->
           OneofItem(FieldNames[i],
              << Plain("a" \o FieldNames[i], None, 10 + i),
                 Plain("b" \o FieldNames[i], Some("Optional"), 20 + i) >>, <<>>)
      [] shape = "oneof_malformed" ->
           OneofItem(FieldNames[i],
              << MapField("a" \o FieldNames[i], None, "String", Int32, Num(10 + i), <<>>),
                 OneofItem("b" \o FieldNames[i], << Plain("c", None, 20 + i) >>, <<>>),
                 GroupField("A" \o GroupNames[i], None,
                    Body(<< FieldItem(Plain("a", Some("Optional"), 1)) >>),
                    Num(30 + i), <<>>) >>, <<>>)
      [] shape = "oneof_option" ->
           OneofItem(FieldNames[i], << Plain("a" \o FieldNames[i], None, 10 + i) >>, AnOption)
      [] shape = "message" ->
           MessageItem(NestedNames[i], Body(<< FieldItem(Plain("a", Some("Optional"), 1)) >>))
      [] shape = "message_option" ->
           MessageItem(NestedNames[i], MessageBody(<<>>, <<>>, AnOption, <<>>))
      [] shape = "enum" ->
           EnumItem(EnumNames[i], << EnumValue("V" \o EnumNames[i], AstInt(FALSE, 0), <<>>) >>,
              <<>>, << ReservedRanges(<< ReservedRange(AstInt(FALSE, 1), RangeEndMax) >>) >>)
      [] shape = "enum_option" ->
           EnumItem(EnumNames[i], << EnumValue("V" \o EnumNames[i], AstInt(FALSE, 0), <<>>) >>,
              AnOption, <<>>)
      [] shape = "value_option" ->
           EnumItem(EnumNames[i],
              << EnumValue("V" \o EnumNames[i], AstInt(FALSE, 0), AnOption) >>, <<>>, <<>>)
      [] shape = "extend" ->
           ExtendItem(TypeName(FALSE, <<"M">>),
              << Plain("x" \o FieldNames[i], Some("Optional"), 100 + i),
                 Plain("y" \o FieldNames[i], Some("Required"), 200 + i) >>)
      [] shape = "extend_malformed" ->
           ExtendItem(TypeName(FALSE, <<"E">>),
              << MapField("x" \o FieldNames[i], None, "String", Int32, Num(100 + i), <<>>),
                 OneofItem("y" \o FieldNames[i], << Plain("c", None, 200 + i) >>, <<>>) >>)

CkBodies ==
    UNION { { [i \in 1..n |-> CkItem(shapes[i], i)] : shapes \in [1..n -> CkShapes] } :
            n \in 0..MaxBody }

\* what comes after M in every file: an enum, an extend with a group, and a
\* service
CkRest(service_options) ==
    << EnumItem("E", << EnumValue("V", AstInt(FALSE, 0), <<>>) >>, <<>>, <<>>),
       ExtendItem(TypeName(TRUE, <<"M">>),
          << GroupField("X", Some("Optional"),
                Body(<< FieldItem(Plain("a", Some("Optional"), 1)) >>), Num(1000), <<>>) >>),
       ServiceItem("S",
          << Method("Call", TypeName(FALSE, <<"M">>), TypeName(FALSE, <<"E">>), <<>>) >>,
          service_options) >>

\* the starts and ends of the ranges of a reserved or extensions statement
RangeStarts == {0, 2, 4, 9, MAX_MESSAGE_FIELD_NUMBER}

RangeEnds ==
    {None, RangeEndMax} \cup
    { RangeEndInt(AstInt(FALSE, n)) : n \in {3, 6, MAX_MESSAGE_FIELD_NUMBER + 1} }

AstRanges == { ReservedRange(AstInt(FALSE, s), e) : s \in RangeStarts, e \in RangeEnds }

\* reserved 2, 4 to 6, 9 to max;
ExampleRanges ==
    << ReservedRange(AstInt(FALSE, 2), None),
       ReservedRange(AstInt(FALSE, 4), RangeEndInt(AstInt(FALSE, 6))),
       ReservedRange(AstInt(FALSE, 9), RangeEndMax) >>

RangeLists ==
    {ExampleRanges} \cup UNION { [1..n -> AstRanges] : n \in 1..MaxRanges }

\* bodies with nothing but reserved and extensions statements and options
RangeBodies ==
    { MessageBody(<<>>, <<>>, <<>>,
         << ReservedRanges(ranges), ReservedNames(<< <<"foo">> >>) >>) :
         ranges \in RangeLists }
    \cup { MessageBody(<<>>, << Extensions(ranges, options) >>, <<>>, <<>>) :
              ranges \in RangeLists, options \in {<<>>, AnOption} }
    \cup { MessageBody(<<>>, <<>>, AnOption, <<>>) }

\* bodies with one item next to an extensions and a reserved statement
MixedBodies ==
    { MessageBody(<< CkItem(shape, 1) >>, << Extensions(<< e >>, <<>>) >>, <<>>,
         << ReservedRanges(<< r >>) >>) :
         shape \in {"opt", "bare", "map_label", "message"},
         e \in { ReservedRange(AstInt(FALSE, n), None) : n \in {0, 100} },
         r \in { ReservedRange(AstInt(FALSE, n), None) : n \in {0, 200} } }

CkFiles ==
    { AstFile(syntax, package, << MessageItem("M", Body(items)) >> \o CkRest(<<>>)) :
         syntax \in Syntaxes, package \in {<<>>, <<"p">>}, items \in CkBodies }
    \cup { AstFile(syntax, <<>>, << MessageItem("M", body) >> \o CkRest(<<>>)) :
              syntax \in Syntaxes, body \in MixedBodies }
    \cup { AstFile(syntax, <<>>, << MessageItem("M", body) >> \o CkRest(options)) :
              syntax \in Syntaxes, body \in RangeBodies, options \in {<<>>, AnOption} }

InitCheck ==
    /\ ck_ast \in CkFiles
    /\ \E has_file_map \in BOOLEAN :
          ck_ctx = Context(ck_ast.syntax, NamesOfFile(ck_ast), has_file_map)
    /\ ck_todo = ck_ast.items
    /\ ck_file = FileDescriptorProto(ck_ast.package, <<>>, <<>>, <<>>, <<>>)
    /\ ck_pc = "start"
    /\ debug_build \in BOOLEAN
    /\ files = EmptyMap /\ file_map = EmptyMap /\ returned = EmptyMap
    /\ ResolveIdle
    /\ PassIdle
    /\ IrIdle
    /\ TypeIdle
    /\ LabelIdle
    /\ NumberIdle
    /\ CommentsIdle

SpecCheck == InitCheck /\ [][NextCheck]_vars

-----------------------------------------------------------------------------
(* C5, C8, C9 *)

\* the message M every input file starts with, and its descriptor once emitted
AstM == ck_ast.items[1]

EmittedM == ck_file.message_type[1]

ScopeM == make_name(ck_ast.package, AstM.name)

MEmitted == ck_pc # "idle" /\ Len(ck_file.message_type) >= 1

ValidNumber(n) == n >= 1 /\ n <= MAX_MESSAGE_FIELD_NUMBER

\* C5: for every map field map<K,V> f = N of the body of M, the descriptor of
\* M holds exactly one nested message named PascalCase(f) + "Entry", with
\* map_entry = true and the fields key (number 1, type K) and value (number 2,
\* type V) in that order, and a field f with label Repeated, type Message and
\* type_name '.' + the full name of M + '.' + the name of the entry message.
C5_MapRoundTrip ==
    MEmitted =>
       \A i \in 1..Len(AstM.body.items) :
          LET it == AstM.body.items[i] IN
          (/\ it.item = "Field" /\ it.field.kind = "Map"
           /\ it.field.label = None /\ ValidNumber(it.field.number.value)) =>
             LET f == it.field
                 entry == <<to_pascal_case(f.name[1]) \o "Entry">>
                 found == { j \in 1..Len(EmittedM.nested_type) :
                               EmittedM.nested_type[j].name = Some(entry) } IN
             /\ Cardinality(found) = 1
             /\ \A j \in found :
                   LET e == EmittedM.nested_type[j] IN
                   /\ e.options = Some(MapEntryOptions)
                   /\ Len(e.field) = 2
                   /\ e.field[1].name = Some(<<"key">>) /\ e.field[1].number = Some(1)
                   /\ e.field[1].type = Some(f.key_ty)
                   /\ e.field[2].name = Some(<<"value">>) /\ e.field[2].number = Some(2)
                   /\ f.ty[1] # "Named" => e.field[2].type = Some(f.ty[1])
             /\ \E k \in 1..Len(EmittedM.field) :
                   LET d == EmittedM.field[k] IN
                   /\ d.name = Some(f.name)
                   /\ d.number = Some(f.number.value)
                   /\ d.label = Some("Repeated")
                   /\ d.type = Some("Message")
                   /\ d.type_name = Some(<<Dot>> \o ScopeM \o <<Dot>> \o entry)

\* C8: the second pass never panics and never trips an assertion, whatever
\* the shape of the file and whatever options its declarations carry.
C8_NoPanic == ck_pc # "panicked"

\* the ranges of the reserved statements of a body, in order
RECURSIVE ReservedOf(_)
ReservedOf(reserved) ==
    IF reserved = <<>> THEN <<>>
    ELSE (IF Head(reserved).kind = "Ranges" THEN Head(reserved).ranges ELSE <<>>)
         \o ReservedOf(Tail(reserved))

\* the ranges of the extensions statements of a body, in order
RECURSIVE ExtensionsOf(_)
ExtensionsOf(extensions) ==
    IF extensions = <<>> THEN <<>>
    ELSE Head(extensions).ranges \o ExtensionsOf(Tail(extensions))

\* a range whose numbers are field numbers, with start <= end
WellFormed(range) ==
    /\ ValidNumber(range.start.value)
    /\ (range.end # None /\ range.end[1] = "Int") =>
          ValidNumber(range.end[2].value) /\ range.start.value <= range.end[2].value

\* the half-open range [start, end) that stands for a range as written
HalfOpen(range) ==
    [start |-> Some(range.start.value),
     end |-> CASE range.end = None -> Some(range.start.value + 1)
               [] range.end[1] = "Int" -> Some(range.end[2].value + 1)
               [] range.end[1] = "Max" -> Some(MAX_MESSAGE_FIELD_NUMBER + 1)]

\* C9: the reserved and the extension ranges of M are emitted half-open: n as
\* [n, n+1), `a to b` as [a, b+1) and `a to max` as [a, MAX+1).
C9_HalfOpen ==
    MEmitted =>
       LET reserved == ReservedOf(AstM.body.reserved)
           extensions == ExtensionsOf(AstM.body.extensions) IN
       /\ Len(EmittedM.reserved_range) = Len(reserved)
       /\ Len(EmittedM.extension_range) = Len(extensions)
       /\ \A i \in 1..Len(reserved) :
             WellFormed(reserved[i]) => EmittedM.reserved_range[i] = HalfOpen(reserved[i])
       /\ \A i \in 1..Len(extensions) :
             WellFormed(extensions[i]) =>
                /\ EmittedM.extension_range[i].start = HalfOpen(extensions[i]).start
                /\ EmittedM.extension_range[i].end = HalfOpen(extensions[i]).end

-----------------------------------------------------------------------------
(* C12 *)

\* the group fields declared directly in the body of M
GroupsOfM ==
    { AstM.body.items[i].field : i \in { j \in 1..Len(AstM.body.items) :
         AstM.body.items[j].item = "Field" /\ AstM.body.items[j].field.kind = "Group" } }

\* the names of the fields declared directly in a body, in order
RECURSIVE FieldNamesOf(_)
FieldNamesOf(items) ==
    IF items = <<>> THEN <<>>
    ELSE (IF Head(items).item = "Field"
          THEN << IF Head(items).field.kind = "Group"
                  THEN <<to_ascii_lowercase(Head(items).field.name[1])>>
                  ELSE Head(items).field.name >>
          ELSE <<>>)
         \o FieldNamesOf(Tail(items))

HasError(kind, name) ==
    \E i \in 1..Len(ck_ctx.errors) : ck_ctx.errors[i] = CheckError(kind, name)

\* C12: in proto2 a group field `group G = N { body }` of M gives one nested
\* message G with the fields of the body, and a field lowercase(G) of type
\* Group whose type_name is the absolute name of that message; in proto3 the
\* group reports Proto3GroupField; a group with a default reports
\* InvalidDefault of kind "group".
C12_GroupField ==
    MEmitted =>
       \A g \in GroupsOfM :
          /\ (ck_ast.syntax = "Proto2" /\ ValidNumber(g.number.value)) =>
                /\ Cardinality({ j \in 1..Len(EmittedM.nested_type) :
                                    EmittedM.nested_type[j].name = Some(g.name) }) = 1
                /\ \A j \in 1..Len(EmittedM.nested_type) :
                      EmittedM.nested_type[j].name = Some(g.name) =>
                         [k \in 1..Len(EmittedM.nested_type[j].field) |->
                             EmittedM.nested_type[j].field[k].name[2]]
                         = FieldNamesOf(g.body.items)
                /\ \E k \in 1..Len(EmittedM.field) :
                      /\ EmittedM.field[k].name = Some(<<to_ascii_lowercase(g.name[1])>>)
                      /\ EmittedM.field[k].number = Some(g.number.value)
                      /\ EmittedM.field[k].type = Some("Group")
                      /\ EmittedM.field[k].type_name
                            = Some(<<Dot>> \o ScopeM \o <<Dot>> \o g.name)
          /\ ck_ast.syntax = "Proto3" => HasError("Proto3GroupField", <<>>)
          /\ g.options = ADefault => HasError("InvalidDefault", <<"group">>)

-----------------------------------------------------------------------------
(* C13 *)

\* the declarations of the body of M: its items, then the ranges statements
Declarations ==
    [i \in 1..Len(AstM.body.items) |-> [decl |-> "item", v |-> AstM.body.items[i]]]
    \o [i \in 1..Len(AstM.body.extensions) |->
           [decl |-> "extensions", v |-> AstM.body.extensions[i]]]
    \o [i \in 1..Len(AstM.body.reserved) |->
           [decl |-> "reserved", v |-> AstM.body.reserved[i]]]

\* the orders in which a source text can hold the declarations: a source
\* order is a sequence of indices into Declarations; the parser keeps the
\* declarations of each of the three vectors of the body in source order
SourceOrders ==
    LET n == Len(Declarations) IN
    { p \in [1..n -> 1..n] :
         /\ \A i, j \in 1..n : i # j => p[i] # p[j]
         /\ \A i, j \in 1..n :
               (i < j /\ Declarations[p[i]].decl = Declarations[p[j]].decl) => p[i] < p[j] }

\* the Context inside the body of M, with no error yet
InsideM ==
    ctx_enter([ck_ctx EXCEPT !.errors = <<>>],
              DefMessage(ctx_full_name(ck_ctx, AstM.name)))

\* the errors reported for one declaration of the body of M
ErrorsFor(d) ==
    CASE d.decl = "item" ->
           body_items(InsideM, << d.v >>,
              [field |-> <<>>, nested_type |-> <<>>, enum_type |-> <<>>,
               oneof_decl |-> <<>>, extension |-> <<>>]).ctx.errors
      [] d.decl = "extensions" -> to_extension_ranges(InsideM, d.v, <<>>).ctx.errors
      [] d.decl = "reserved" ->
           message_reserved(InsideM, << d.v >>,
              [reserved_range |-> <<>>, reserved_name |-> <<>>]).ctx.errors

\* the errors of the declarations, one declaration after the other in the order
RECURSIVE ErrorsInOrder(_, _)
ErrorsInOrder(order, i) ==
    IF i > Len(order) THEN <<>>
    ELSE ErrorsFor(Declarations[order[i]]) \o ErrorsInOrder(order, i + 1)

\* M is the last message emitted and nothing after it has been
JustEmittedM == MEmitted /\ Len(ck_todo) = Len(ck_ast.items) - 1

\* C13: whatever order the source holds the declarations of the body of M in,
\* the errors of the file come declaration by declaration in that order: all
\* errors of a declaration before all errors of the declarations after it.
C13_DiagnosticOrder ==
    JustEmittedM => \A order \in SourceOrders : ck_ctx.errors = ErrorsInOrder(order, 1)

-----------------------------------------------------------------------------
(* C14 *)

\* the names of the messages generated for the groups among the fields of a
\* oneof or an extend, in order
RECURSIVE GroupNamesOf(_)
GroupNamesOf(fields) ==
    IF fields = <<>> THEN <<>>
    ELSE (IF kind_of(Head(fields)) = "Group" THEN << Head(fields).name >> ELSE <<>>)
         \o GroupNamesOf(Tail(fields))

\* the names of the nested messages of a body, declared or generated, in the
\* order of the declarations
RECURSIVE NestedNamesOf(_)
NestedNamesOf(items) ==
    IF items = <<>> THEN <<>>
    ELSE LET it == Head(items) IN
         (CASE it.item = "Message" -> << it.name >>
            [] it.item = "Field" /\ it.field.kind = "Map" ->
                 << <<to_pascal_case(it.field.name[1]) \o "Entry">> >>
            [] it.item = "Field" /\ it.field.kind = "Group" -> << it.field.name >>
            [] it.item \in {"Oneof", "Extend"} -> GroupNamesOf(it.fields)
            [] OTHER -> <<>>)
         \o NestedNamesOf(Tail(items))

\* the map and group fields declared directly in the body of M
GeneratingFieldsOfM ==
    { AstM.body.items[i].field : i \in { j \in 1..Len(AstM.body.items) :
         AstM.body.items[j].item = "Field"
         /\ AstM.body.items[j].field.kind \in {"Map", "Group"} } }

\* what the emitter of a map or group field returns, called in the body of M
\* with the messages given
Generated(f, messages) ==
    IF f.kind = "Map" THEN map_to_field_descriptor(InsideM, f, messages)
    ELSE group_to_field_descriptor(InsideM, f, messages)

\* C14: nested_type of M holds the nested messages of the body and the
\* messages generated for its map and group fields in the order of the
\* declarations, and the emitter of a map or group field has appended the
\* generated message by the time it returns the field that is then appended
\* to the field list.
C14_NestedTypeOrder ==
    MEmitted =>
       /\ [j \in 1..Len(EmittedM.nested_type) |-> EmittedM.nested_type[j].name[2]]
             = NestedNamesOf(AstM.body.items)
       /\ \A f \in GeneratingFieldsOfM :
             ~Generated(f, <<>>).ctx.panicked =>
                /\ Len(Generated(f, <<>>).messages) = 1
                /\ Generated(f, <<>>).messages[1].name
                      = Some(IF f.kind = "Map" THEN <<to_pascal_case(f.name[1]) \o "Entry">>
                             ELSE f.name)

\* M with a map field declared before a nested message has been emitted
C14_Witness ==
    /\ MEmitted
    /\ Len(AstM.body.items) = 2
    /\ AstM.body.items[1].item = "Field" /\ AstM.body.items[1].field.kind = "Map"
    /\ AstM.body.items[2].item = "Message"
    /\ Len(EmittedM.nested_type) = 2
    /\ EmittedM.nested_type[2].name = Some(AstM.body.items[2].name)

-----------------------------------------------------------------------------
(* C15 *)

\* the type names and extendees recorded in a list of fields
ReferencesOfFields(fields) ==
    { fields[k].type_name[2] : k \in { i \in 1..Len(fields) : fields[i].type_name # None } }
    \cup { fields[k].extendee[2] : k \in { i \in 1..Len(fields) : fields[i].extendee # None } }

\* the type names and extendees recorded in a list of messages, nested
\* messages included
RECURSIVE ReferencesOfMessages(_)
ReferencesOfMessages(messages) ==
    UNION { ReferencesOfFields(messages[j].field)
            \cup ReferencesOfFields(messages[j].extension)
            \cup ReferencesOfMessages(messages[j].nested_type) : j \in 1..Len(messages) }

\* the input and output types recorded in a list of services
ReferencesOfServices(services) ==
    UNION { UNION { { services[j].method[k].input_type[2],
                      services[j].method[k].output_type[2] } :
                    k \in 1..Len(services[j].method) } : j \in 1..Len(services) }

\* every name the descriptor of the file refers to a type by
ReferencesOfFile ==
    ReferencesOfMessages(ck_file.message_type)
    \cup ReferencesOfFields(ck_file.extension)
    \cup ReferencesOfServices(ck_file.service)

\* C15: every type_name, extendee, input_type and output_type recorded in the
\* descriptor of a file begins with '.', however the reference was written
\* and whether or not it resolved.
C15_AbsoluteNames ==
    ck_pc = "returned" => \A name \in ReferencesOfFile : name # <<>> /\ name[1] = Dot


-----------------------------------------------------------------------------
(* C17 *)

\* the normal fields M declares directly in its body
DirectFieldsOfM ==
    { it.field : it \in { x \in Range(AstM.body.items) :
                             x.item = "Field" /\ x.field.kind = "Normal" } }

\* the normal fields M declares inside an explicit oneof or an extend block
EnclosedFieldsOfM ==
    UNION { { f \in Range(it.fields) : kind_of(f) = "Normal" } :
            it \in { x \in Range(AstM.body.items) : x.item \in {"Oneof", "Extend"} } }

\* the descriptors emitted for a field of M, among its fields and extensions
DescriptorsOf(f) ==
    { d \in Range(EmittedM.field) \cup Range(EmittedM.extension) : d.name = Some(f.name) }

\* C17: an emitted field has proto3_optional = true exactly when the file is
\* proto3, the field is labelled optional and it is declared directly in the
\* message body; inside an explicit oneof or an extend block, and in every
\* other case, proto3_optional is absent.
C17_Proto3Optional ==
    MEmitted =>
       /\ \A f \in DirectFieldsOfM :
             /\ DescriptorsOf(f) # {}
             /\ \A d \in DescriptorsOf(f) :
                   d.proto3_optional =
                      IF ck_ast.syntax = "Proto3" /\ f.label = Some("Optional")
                      THEN Some(TRUE) ELSE None
       /\ \A f \in EnclosedFieldsOfM :
             /\ DescriptorsOf(f) # {}
             /\ \A d \in DescriptorsOf(f) : d.proto3_optional = None

-----------------------------------------------------------------------------
(* C21 *)

\* the literal is a field number: not negative and in [1, MAX_FIELD_NUMBER]
IsFieldNumber(int) ==
    /\ ~int.negative
    /\ high_of(int) = 0
    /\ int.value \in 1..MAX_MESSAGE_FIELD_NUMBER

\* C21: to_field_number returns the value of a literal that is not negative
\* and lies in [1, MAX_FIELD_NUMBER] and reports nothing; for every other
\* literal (0, negative, above the maximum, beyond 32 bits) it returns no
\* number and reports exactly one InvalidMessageNumber.
C21_FieldNumber ==
    (nm_op = "to_field_number" /\ nm_result # None) =>
       LET after == nm_result[2].ctx
           number == nm_result[2].v IN
       IF IsFieldNumber(nm_int)
       THEN number = Some(nm_int.value) /\ after = nm_ctx
       ELSE /\ number = None
            /\ after = [nm_ctx EXCEPT !.errors =
                           Append(nm_ctx.errors, CheckError("InvalidMessageNumber", <<>>))]

\* the largest field number was accepted
C21_Witness ==
    /\ nm_op = "to_field_number" /\ nm_result # None
    /\ nm_int = AstInt(FALSE, MAX_MESSAGE_FIELD_NUMBER)
    /\ nm_result[2].v = Some(MAX_MESSAGE_FIELD_NUMBER)

-----------------------------------------------------------------------------
(* C22 *)

\* the signed value of the literal lies in [i32::MIN, i32::MAX]
IsEnumNumber(int) ==
    \/ high_of(int) = 0
    \/ int.negative /\ high_of(int) = 1 /\ int.value = 0

\* the signed value of such a literal; i32::MIN is -(2^31 - 1) - 1
SignedValue(int) ==
    IF ~int.negative THEN int.value
    ELSE IF high_of(int) = 1 THEN (0 - I32_MAX) - 1
    ELSE 0 - int.value

\* C22: to_enum_number returns the signed value of a literal that lies in
\* [i32::MIN, i32::MAX], negative values included, and reports nothing; for
\* every other literal it returns no number and reports exactly one
\* InvalidEnumNumber.
C22_EnumNumber ==
    (nm_op = "to_enum_number" /\ nm_result # None) =>
       LET after == nm_result[2].ctx
           number == nm_result[2].v IN
       IF IsEnumNumber(nm_int)
       THEN number = Some(SignedValue(nm_int)) /\ after = nm_ctx
       ELSE /\ number = None
            /\ after = [nm_ctx EXCEPT !.errors =
                           Append(nm_ctx.errors, CheckError("InvalidEnumNumber", <<>>))]

-----------------------------------------------------------------------------
(* C23 *)

\* what a reference at a method or extendee position is to report: the name
\* looked up from the scope of the reference in the file's NameMap
ReferenceErrors(names, scope, type_name, invalid_kind) ==
    LET found == resolve(names, scope, to_string(type_name)) IN
    IF found = None THEN << CheckError("TypeNameNotFound", to_string(type_name)) >>
    ELSE IF found[2][2].tag \in {"Message", "Group"} THEN <<>>
    ELSE << CheckError(invalid_kind, to_string(type_name)) >>

RECURSIVE MethodErrors(_, _, _)
MethodErrors(names, scope, methods) ==
    IF methods = <<>> THEN <<>>
    ELSE ReferenceErrors(names, scope, Head(methods).input_ty, "InvalidMethodTypeName")
         \o ReferenceErrors(names, scope, Head(methods).output_ty, "InvalidMethodTypeName")
         \o MethodErrors(names, scope, Tail(methods))

\* C23: when names are resolved (the Context has a file map), emitting a
\* service reports, for the input and then the output of each method in
\* turn: one TypeNameNotFound and nothing else when the name does not resolve
\* from the service's scope, one InvalidMethodTypeName when it resolves to a
\* kind other than Message or Group, nothing when it resolves to a Message or
\* a Group.
C23_KindChecks ==
    [][ ( /\ CheckRunning /\ Head(ck_todo).item = "Service"
          /\ ck_ctx.file_map
          /\ ck_pc' = "items" )
        => Pushed(ck_ctx, ck_ctx') =
              MethodErrors(ck_ctx.names,
                           make_name(ck_ast.package, Head(ck_todo).name),
                           Head(ck_todo).methods)
      ]_vars

-----------------------------------------------------------------------------
(* C28 *)

\* every message descriptor of the file emitted so far, at any depth
RECURSIVE DescriptorTree(_)
DescriptorTree(messages) ==
    Range(messages) \cup UNION { DescriptorTree(m.nested_type) : m \in Range(messages) }

\* the name a field is emitted under
EmittedName(f) ==
    IF kind_of(f) = "Group" THEN Some(<<to_ascii_lowercase(f.name[1])>>) ELSE Some(f.name)

\* the fields of a oneof or extend block that are emitted: not maps, not oneofs
EmittedOf(fields) == { f \in Range(fields) : kind_of(f) \in {"Normal", "Group"} }

\* the Context in which the items of the body of M are emitted, up to errors
ContextOfM ==
    [ck_ctx EXCEPT !.stack =
        (IF ck_ast.package = <<>> THEN <<>> ELSE << DefPackage(ck_ast.package) >>)
        \o << DefMessage(ScopeM) >>]

-----------------------------------------------------------------------------
(* C29 *)

\* the stack between the items of the file: the package, if there is one
StackOfFile ==
    IF ck_ast.package = <<>> THEN <<>> ELSE << DefPackage(ck_ast.package) >>

\* C29: emitting an item of the file (a message with all that its body
\* holds: groups, oneofs, extend blocks, nested messages and enums, fields
\* rejected inside a oneof or an extend block; an enum; an extend block; a
\* service) leaves the definition stack as it found it, whatever errors are
\* reported, and exit never finds the stack empty; when the file has been
\* emitted the stack is empty.
C29_StackBalance ==
    [][ /\ CheckRunning => /\ ck_ctx'.stack = ck_ctx.stack
                           /\ ck_ctx.stack = StackOfFile
                           /\ ~ck_ctx'.unbalanced
        /\ (ck_pc = "items" /\ ck_todo = <<>>) => /\ ck_ctx'.stack = <<>>
                                                   /\ ~ck_ctx'.unbalanced
      ]_vars

\* a file of package p whose message M holds a oneof and an extend block
\* with rejected fields was emitted, and the stack is empty
C29_Witness ==
    /\ ck_pc = "returned"
    /\ ck_ast.package = <<"p">>
    /\ ck_ctx.stack = <<>>
    /\ \E i \in 1..Len(ck_ctx.errors) : ck_ctx.errors[i].kind = "InvalidOneofFieldKind"
    /\ \E i \in 1..Len(ck_ctx.errors) : ck_ctx.errors[i].kind = "InvalidExtendFieldKind"
    /\ \E i \in 1..Len(ck_ctx.errors) : ck_ctx.errors[i].kind = "Proto3GroupField"

====
